---- MODULE Spec2Model ----
(***************************************************************************)
(* A model of the property search service (services/property_search.py):   *)
(* the loaded availability table, the three-stage name resolver, the       *)
(* date-range availability aggregator and the response formatter.          *)
(*                                                                         *)
(* Text is modelled as a sequence of one-character strings, so that        *)
(* lower-casing, trimming, splitting and substring search are computed     *)
(* and not assumed.  A similarity score (a float in the source) is the     *)
(* exact fraction [n, d] = n/d; the thresholds are compared exactly.       *)
(* An optional value (None in the source) is the empty sequence, a present *)
(* value v is <<v>>.                                                       *)
(***************************************************************************)
EXTENDS Integers, Sequences, FiniteSets, TLC

(***************************************************************************)
(* Characters and the str methods the service uses.                        *)
(***************************************************************************)
UpperCase ==
    <<"A","B","C","D","E","F","G","H","I","J","K","L","M",
      "N","O","P","Q","R","S","T","U","V","W","X","Y","Z">>

LowerCase ==
    <<"a","b","c","d","e","f","g","h","i","j","k","l","m",
      "n","o","p","q","r","s","t","u","v","w","x","y","z">>

\* The characters in code point order (the order sorted() compares by).
Digits == <<"0","1","2","3","4","5","6","7","8","9">>

Alphabet == <<" ", "-">> \o Digits \o UpperCase \o LowerCase

CharSet == {Alphabet[i] : i \in 1..Len(Alphabet)}

CodePoint == [c \in CharSet |-> CHOOSE i \in 1..Len(Alphabet) : Alphabet[i] = c]

LowerMap ==
    [c \in CharSet |->
        IF \E i \in 1..Len(UpperCase) : UpperCase[i] = c
        THEN LowerCase[CHOOSE i \in 1..Len(UpperCase) : UpperCase[i] = c]
        ELSE c]

Max2(a, b) == IF a >= b THEN a ELSE b

\* str.lower()
str_lower(s) == [i \in 1..Len(s) |-> LowerMap[s[i]]]

\* str.strip(): drop the leading and the trailing whitespace
str_strip(s) ==
    IF \A i \in 1..Len(s) : s[i] = " "
    THEN <<>>
    ELSE LET first == CHOOSE i \in 1..Len(s) :
                          s[i] # " " /\ \A j \in 1..(i-1) : s[j] = " "
             last  == CHOOSE i \in 1..Len(s) :
                          s[i] # " " /\ \A j \in (i+1)..Len(s) : s[j] = " "
         IN  SubSeq(s, first, last)

\* where the words of s begin: a character that is not a blank, at the
\* start or behind a blank
WordStarts(s) ==
    {i \in 1..Len(s) : s[i] # " " /\ (i = 1 \/ s[i - 1] = " ")}

\* the word of s that begins at i: up to the next blank or the end
WordAt(s, i) ==
    SubSeq(s, i, CHOOSE j \in i..Len(s) :
                    /\ \A h \in i..j : s[h] # " "
                    /\ (j = Len(s) \/ s[j + 1] = " "))

\* str.split(): the words between runs of whitespace, in order
str_split(s) ==
    [k \in 1..Cardinality(WordStarts(s)) |->
        WordAt(s, CHOOSE i \in WordStarts(s) :
                      Cardinality({h \in WordStarts(s) : h < i}) = k - 1)] \o <<>>

\* set(str.split())
WordSet(s) == LET w == str_split(s) IN {w[i] : i \in 1..Len(w)}

\* str.replace('-', ' ')
replace_hyphen(s) == [i \in 1..Len(s) |-> IF s[i] = "-" THEN " " ELSE s[i]]

\* sub in s
str_contains(sub, s) ==
    \E i \in 0..(Len(s) - Len(sub)) : SubSeq(s, i + 1, i + Len(sub)) = sub

\* s < t for str (code point order, a proper prefix first)
RECURSIVE StrLess(_, _)
StrLess(s, t) ==
    IF t = <<>> THEN FALSE
    ELSE IF s = <<>> THEN TRUE
    ELSE IF s[1] = t[1] THEN StrLess(Tail(s), Tail(t))
    ELSE CodePoint[s[1]] < CodePoint[t[1]]

\* " ".join(words)
RECURSIVE JoinWords(_)
JoinWords(ws) ==
    IF ws = <<>> THEN <<>>
    ELSE IF Len(ws) = 1 THEN ws[1]
    ELSE ws[1] \o <<" ">> \o JoinWords(Tail(ws))

RECURSIVE InsertSorted(_, _)
InsertSorted(w, ws) ==
    IF ws = <<>> THEN <<w>>
    ELSE IF StrLess(w, ws[1]) THEN <<w>> \o ws
    ELSE <<ws[1]>> \o InsertSorted(w, Tail(ws))

\* sorted(words)
RECURSIVE SortWords(_)
SortWords(ws) ==
    IF ws = <<>> THEN <<>> ELSE InsertSorted(ws[1], SortWords(Tail(ws)))

\* sorted(set of words)
RECURSIVE SortWordSet(_)
SortWordSet(S) ==
    IF S = {} THEN <<>>
    ELSE LET m == CHOOSE w \in S : \A v \in S : v = w \/ StrLess(w, v)
         IN  <<m>> \o SortWordSet(S \ {m})

(***************************************************************************)
(* The rapidfuzz scorers the resolver calls (fuzz.ratio, fuzz.partial_     *)
(* ratio, fuzz.token_sort_ratio, fuzz.token_set_ratio, process.extract),   *)
(* computed as the library computes them, without preprocessing.           *)
(***************************************************************************)
Score(n, d) == [n |-> n, d |-> d]

ScoreLess(a, b) == a.n * b.d < b.n * a.d

\* score >= k for an integer threshold k
ScoreAtLeast(a, k) == a.n >= k * a.d

\* score * (w10 / 10)
Weighted(a, w10) == [n |-> a.n * w10, d |-> a.d * 10]

\* The next row of the longest-common-subsequence table: entry j + 1 is the
\* LCS length of the prefix of a ending in character c and b[1..j].
LcsNextRow(prev, c, b) ==
    [j \in 1..(Len(b) + 1) |->
        LET hits == {prev[k] + 1 : k \in {h \in 1..(j - 1) : b[h] = c}}
        IN  IF hits = {} THEN prev[j]
            ELSE Max2(prev[j], CHOOSE v \in hits : \A u \in hits : u <= v)] \o <<>>

RECURSIVE LcsRows(_, _, _, _)
\* the last entry of the last row; a row whose last entry is Len(b) already
\* has every row after it end in Len(b)
LcsRows(a, b, i, prev) ==
    IF i > Len(a) \/ prev[Len(b) + 1] = Len(b) THEN prev[Len(b) + 1]
    ELSE LcsRows(a, b, i + 1, LcsNextRow(prev, a[i], b))

\* length of a longest common subsequence
LcsLen(a, b) == LcsRows(a, b, 1, [j \in 1..(Len(b) + 1) |-> 0] \o <<>>)

\* Indel.distance: insertions and deletions turning a into b
IndelDistance(a, b) == Len(a) + Len(b) - 2 * LcsLen(a, b)

\* 100 - 100 * dist / lensum, 100 for two empty strings
NormDistance(dist, lensum) ==
    IF lensum > 0 THEN Score(100 * (lensum - dist), lensum) ELSE Score(100, 1)

\* fuzz.ratio
fuzz_ratio(a, b) == NormDistance(IndelDistance(a, b), Len(a) + Len(b))

\* the largest of a non-empty set of scores
MaxScore(S) == CHOOSE a \in S : \A b \in S : ~ScoreLess(a, b)

\* The windows of the longer string that _partial_ratio_impl scores the
\* shorter string s1 against: prefixes shorter than s1, every window of
\* s1's length, and the suffixes no longer than s1; a window is skipped when
\* its last (for a suffix: first) character does not occur in s1.
PartialWindows(s1, s2) ==
    LET len1 == Len(s1)
        len2 == Len(s2)
        chars == {s1[k] : k \in 1..len1}
    IN  {SubSeq(s2, 1, i) : i \in {k \in 1..(len1 - 1) : s2[k] \in chars}}
        \cup {SubSeq(s2, i + 1, i + len1) :
                 i \in {k \in 0..(len2 - len1 - 1) : s2[k + len1] \in chars}}
        \cup {SubSeq(s2, i + 1, len2) :
                 i \in {k \in (len2 - len1)..(len2 - 1) : s2[k + 1] \in chars}}

\* _partial_ratio_impl, for Len(s1) <= Len(s2)
PartialRatioImpl(s1, s2) ==
    MaxScore({Score(0, 1)} \cup {fuzz_ratio(s1, w) : w \in PartialWindows(s1, s2)})

\* the second pass of partial_ratio, for two strings of one length
PartialSecondPass(res, s1, s2) ==
    IF Len(s1) = Len(s2) /\ ~ScoreAtLeast(res, 100)
    THEN MaxScore({res, PartialRatioImpl(s2, s1)})
    ELSE res

\* partial_ratio with the shorter string first
PartialRatioOrdered(shorter, longer) ==
    PartialSecondPass(PartialRatioImpl(shorter, longer), shorter, longer)

\* fuzz.partial_ratio
fuzz_partial_ratio(a, b) ==
    IF a = <<>> /\ b = <<>> THEN Score(100, 1)
    ELSE IF Len(a) <= Len(b) THEN PartialRatioOrdered(a, b)
    ELSE PartialRatioOrdered(b, a)

\* fuzz.token_sort_ratio
fuzz_token_sort_ratio(a, b) ==
    fuzz_ratio(JoinWords(SortWords(str_split(a))), JoinWords(SortWords(str_split(b))))

\* token_set_ratio of the joined differences, sect_len the length of the
\* joined common tokens
TokenSetScores(diff_ab, diff_ba, sect_len) ==
    LET sep         == IF sect_len # 0 THEN 1 ELSE 0
        sect_ab_len == sect_len + sep + Len(diff_ab)
        sect_ba_len == sect_len + sep + Len(diff_ba)
        result      == NormDistance(IndelDistance(diff_ab, diff_ba),
                                    sect_ab_len + sect_ba_len)
    IN  IF sect_len = 0 THEN result
        ELSE MaxScore({result,
                       NormDistance(sep + Len(diff_ab), sect_len + sect_ab_len),
                       NormDistance(sep + Len(diff_ba), sect_len + sect_ba_len)})

\* token_set_ratio of two token sets
TokenSetRatioOf(tokens_a, tokens_b) ==
    IF tokens_a = {} \/ tokens_b = {} THEN Score(0, 1)
    ELSE IF tokens_a \cap tokens_b # {}
            /\ (tokens_a \subseteq tokens_b \/ tokens_b \subseteq tokens_a)
    THEN Score(100, 1)
    ELSE TokenSetScores(JoinWords(SortWordSet(tokens_a \ tokens_b)),
                        JoinWords(SortWordSet(tokens_b \ tokens_a)),
                        Len(JoinWords(SortWordSet(tokens_a \cap tokens_b))))

\* fuzz.token_set_ratio
fuzz_token_set_ratio(a, b) == TokenSetRatioOf(WordSet(a), WordSet(b))

\* the place of entry i in the stable descending sort: behind every entry
\* with a larger score and every earlier entry with the same score
RankByScore(entries, i) ==
    1 + Cardinality({j \in 1..Len(entries) :
            \/ ScoreLess(entries[i].score, entries[j].score)
            \/ j < i /\ ~ScoreLess(entries[j].score, entries[i].score)})

\* sorted(entries, key = score, reverse = True): descending, ties in the
\* original order
SortByScoreDesc(entries) ==
    [k \in 1..Len(entries) |->
        entries[CHOOSE i \in 1..Len(entries) : RankByScore(entries, i) = k]] \o <<>>

\* limit = 20 of the three process.extract calls
ExtractLimit == 20

\* the scorer a process.extract call is given
score_with(scorer, a, b) ==
    CASE scorer = "partial_ratio"    -> fuzz_partial_ratio(a, b)
      [] scorer = "token_sort_ratio" -> fuzz_token_sort_ratio(a, b)
      [] scorer = "token_set_ratio"  -> fuzz_token_set_ratio(a, b)

\* the first n entries, or all of them
TakeFirst(entries, n) ==
    SubSeq(entries, 1, IF Len(entries) < n THEN Len(entries) ELSE n)

\* process.extract(query, choices, scorer = scorer, limit = ExtractLimit):
\* (index, score) of the best choices, best first, ties by index
process_extract(scorer, query, choices) ==
    TakeFirst(SortByScoreDesc([i \in 1..Len(choices) |->
                  [idx |-> i, score |-> score_with(scorer, query, choices[i])]] \o <<>>),
              ExtractLimit)

(***************************************************************************)
(* The name resolver, PropertySearchService._fuzzy_search_properties.      *)
(***************************************************************************)
\* self.similarity_threshold
similarity_threshold == 90

\* the per-word similarity a specific word needs
word_similarity_threshold == 85

\* the weighted score a generic-only term needs in the fuzzy stage
generic_only_threshold == 95

generic_words ==
    { <<"v","i","l","l","a">>, <<"h","o","u","s","e">>,
      <<"c","o","t","t","a","g","e">>, <<"e","s","t","a","t","e">>,
      <<"m","a","n","o","r">>, <<"p","a","l","a","c","e">>,
      <<"r","e","s","o","r","t">> }

\* the words of an identifier: lower-cased, hyphens as separators
prop_words_of(prop) == WordSet(replace_hyphen(str_lower(prop)))

\* some specific search word equals, or is at least 85% similar to, some
\* specific word of the identifier
specific_match(search_specific, prop_specific) ==
    \/ search_specific \cap prop_specific # {}
    \/ \E sw \in search_specific : \E pw \in prop_specific :
           ScoreAtLeast(fuzz_ratio(sw, pw), word_similarity_threshold)

\* a substring stage that compares with the identifier as it is written
direct_matches_as_written(search_term_lower, all_properties) ==
    SelectSeq(all_properties, LAMBDA prop : str_contains(search_term_lower, prop))

\* a Stage 1 in which an empty term matches nothing
direct_matches_of_nonempty_term(search_term_lower, all_properties) ==
    IF search_term_lower = <<>> THEN <<>>
    ELSE SelectSeq(all_properties, LAMBDA prop : str_contains(search_term_lower, str_lower(prop)))

\* Stage 1: the identifiers whose lower-cased name contains the term
direct_matches(search_term_lower, all_properties) ==
    SelectSeq(all_properties, LAMBDA prop : str_contains(search_term_lower, str_lower(prop)))

\* a word stage that asks for the 80% only
words_match_by_ratio(search_words, prop_words) ==
    IF search_words \ generic_words # {}
    THEN \/ search_words \subseteq prop_words
         \/ 10 * Cardinality(search_words \cap prop_words) >= 8 * Cardinality(search_words)
    ELSE search_words \subseteq prop_words

\* Stage 2, for the word set of one identifier (search_words is not empty)
words_match(search_words, prop_words) ==
    IF search_words \ generic_words # {}
    THEN \/ search_words \subseteq prop_words
         \* intersection_ratio >= 0.8
         \/ /\ 10 * Cardinality(search_words \cap prop_words) >= 8 * Cardinality(search_words)
            /\ specific_match(search_words \ generic_words, prop_words \ generic_words)
    ELSE search_words \subseteq prop_words

\* Stage 2, for one identifier
is_word_match(search_words, prop) == words_match(search_words, prop_words_of(prop))

word_matches(search_words, all_properties) ==
    SelectSeq(all_properties, LAMBDA prop : is_word_match(search_words, prop))

\* the item all_matches ends up holding for the identifier of items[i]: the
\* first of its items that no other of its items beats
BestItemFor(items, i) ==
    items[CHOOSE h \in 1..Len(items) :
            /\ items[h].name = items[i].name
            /\ \A g \in 1..Len(items) :
                  items[g].name = items[i].name
                  => /\ ~ScoreLess(items[h].score, items[g].score)
                     /\ g < h => ScoreLess(items[g].score, items[h].score)]

\* the items with which an identifier enters all_matches
FirstItems(items) ==
    {i \in 1..Len(items) : \A h \in 1..(i - 1) : items[h].name # items[i].name}

\* all_matches: identifier -> best weighted score, in insertion order (an
\* item is stored when its identifier is new or its score is larger than
\* the one stored)
CombineFrom(items, firsts) ==
    [k \in 1..Cardinality(firsts) |->
        BestItemFor(items, CHOOSE i \in firsts :
                               Cardinality({h \in firsts : h < i}) = k - 1)] \o <<>>

\* the shortlist of one metric with its weight applied
weighted_matches(matches, w10, all_properties) ==
    [k \in 1..Len(matches) |->
        [name |-> all_properties[matches[k].idx],
         score |-> Weighted(matches[k].score, w10)]] \o <<>>

\* a word filter that leaves a generic-only term to the base threshold
passes_fuzzy_filter_base_only(search_words, entry) ==
    search_words \ generic_words # {}
    => specific_match(search_words \ generic_words,
                      prop_words_of(entry.name) \ generic_words)

\* Stage 3, the word filter of one shortlisted identifier
passes_fuzzy_filter(search_words, entry) ==
    IF search_words \ generic_words # {}
    THEN specific_match(search_words \ generic_words,
                        prop_words_of(entry.name) \ generic_words)
    ELSE ScoreAtLeast(entry.score, generic_only_threshold)

\* [prop.lower() for prop in all_properties]
lowered_properties(all_properties) ==
    [i \in 1..Len(all_properties) |-> str_lower(all_properties[i])] \o <<>>

\* all_matches for the items of the three shortlists
combined(items) == CombineFrom(items, FirstItems(items))

\* all_matches: the three shortlists, weighted and combined
all_matches_of(search_term_lower, lowered, all_properties) ==
    combined(
        weighted_matches(process_extract("partial_ratio", search_term_lower, lowered),
                         10, all_properties)
        \o weighted_matches(process_extract("token_sort_ratio", search_term_lower, lowered),
                            12, all_properties)
        \o weighted_matches(process_extract("token_set_ratio", search_term_lower, lowered),
                            11, all_properties))

\* the identifiers of the entries, in their order
names_of(entries) == [k \in 1..Len(entries) |-> entries[k].name] \o <<>>

\* Stage 3: the scored fuzzy fallback
fuzzy_matches(search_term_lower, search_words, all_properties) ==
    names_of(SelectSeq(
        SortByScoreDesc(all_matches_of(search_term_lower,
                                       lowered_properties(all_properties),
                                       all_properties)),
        LAMBDA e : /\ ScoreAtLeast(e.score, similarity_threshold)
                   /\ passes_fuzzy_filter(search_words, e)))

\* a resolver that ends after the word stage
fuzzy_search_properties_without_fallback(search_term, all_properties) ==
    LET search_term_lower == str_strip(str_lower(search_term))
        search_words      == WordSet(search_term_lower)
        direct            == direct_matches(search_term_lower, all_properties)
    IN  IF direct # <<>>
        THEN [raised |-> FALSE, matches |-> direct, stages |-> {"substring"}]
        ELSE [raised |-> FALSE,
              matches |-> word_matches(search_words, all_properties),
              stages |-> {"substring", "word"}]

\* the return statement the stages reach: the matches of the first stage
\* that has any, the stages that ran, and whether the word stage raised
\* (its division by len(search_words))
first_stage_with_matches(direct, words, fuzzy, search_words, all_properties) ==
    IF direct # <<>>
    THEN [raised |-> FALSE, matches |-> direct, stages |-> {"substring"}]
    ELSE IF all_properties # <<>> /\ search_words = {}
    THEN [raised |-> TRUE, matches |-> <<>>, stages |-> {"substring", "word"}]
    ELSE IF words # <<>>
    THEN [raised |-> FALSE, matches |-> words, stages |-> {"substring", "word"}]
    ELSE [raised |-> FALSE, matches |-> fuzzy,
          stages |-> {"substring", "word", "fuzzy"}]

\* the three stages for the lower-cased term and its words
search_stages(search_term_lower, search_words, all_properties) ==
    first_stage_with_matches(
        direct_matches(search_term_lower, all_properties),
        word_matches(search_words, all_properties),
        fuzzy_matches(search_term_lower, search_words, all_properties),
        search_words, all_properties)

\* the stages for the lower-cased term
search_lowered(search_term_lower, all_properties) ==
    search_stages(search_term_lower, WordSet(search_term_lower), all_properties)

\* _fuzzy_search_properties
fuzzy_search_properties(search_term, all_properties) ==
    search_lowered(str_strip(str_lower(search_term)), all_properties)

(***************************************************************************)
(* Dates: datetime.strptime / strftime with "%Y-%m-%d", and timedelta.     *)
(* A date text is a character sequence; a parsed date is [year, month,    *)
(* day]; a failed parse (ValueError) is the empty option.                  *)
(***************************************************************************)
None == <<>>

Some(v) == <<v>>

DigitSet == {Digits[i] : i \in 1..Len(Digits)}

DigitValue == [c \in DigitSet |-> (CHOOSE i \in 1..Len(Digits) : Digits[i] = c) - 1]

RECURSIVE HyphenFieldsFrom(_, _, _, _)
HyphenFieldsFrom(s, i, cur, acc) ==
    IF i > Len(s) THEN Append(acc, cur)
    ELSE IF s[i] = "-" THEN HyphenFieldsFrom(s, i + 1, <<>>, Append(acc, cur))
    ELSE HyphenFieldsFrom(s, i + 1, Append(cur, s[i]), acc)

\* the parts of a text between its hyphens
HyphenFields(s) == HyphenFieldsFrom(s, 1, <<>>, <<>>)

AllDigits(f) == \A i \in 1..Len(f) : f[i] \in DigitSet

RECURSIVE NumberOf(_)
NumberOf(f) ==
    IF f = <<>> THEN 0 ELSE 10 * NumberOf(SubSeq(f, 1, Len(f) - 1)) + DigitValue[f[Len(f)]]

\* %Y: four digits
IsYearField(f) == Len(f) = 4 /\ AllDigits(f)

\* %m: 1[0-2] | 0[1-9] | [1-9]
IsMonthField(f) == Len(f) \in {1, 2} /\ AllDigits(f) /\ NumberOf(f) \in 1..12

\* %d: 3[01] | [12]\d | 0[1-9] | [1-9] | " "[1-9]
IsDayField(f) ==
    \/ Len(f) \in {1, 2} /\ AllDigits(f) /\ NumberOf(f) \in 1..31
    \/ Len(f) = 2 /\ f[1] = " " /\ f[2] \in DigitSet \ {"0"}

DayNumber(f) == IF f[1] = " " THEN NumberOf(Tail(f)) ELSE NumberOf(f)

IsLeapYear(y) == y % 4 = 0 /\ (y % 100 # 0 \/ y % 400 = 0)

DaysInMonth(y, m) ==
    IF m = 2 THEN (IF IsLeapYear(y) THEN 29 ELSE 28)
    ELSE IF m \in {4, 6, 9, 11} THEN 30 ELSE 31

\* the date the three fields of a text stand for, if they stand for one
date_of_fields(f) ==
    IF /\ Len(f) = 3
       /\ IsYearField(f[1]) /\ IsMonthField(f[2]) /\ IsDayField(f[3])
       /\ NumberOf(f[1]) >= 1
       /\ DayNumber(f[3]) <= DaysInMonth(NumberOf(f[1]), NumberOf(f[2]))
    THEN Some([year |-> NumberOf(f[1]), month |-> NumberOf(f[2]),
               day |-> DayNumber(f[3])])
    ELSE None

\* datetime.strptime(text, "%Y-%m-%d"): None for a ValueError
strptime(text) == date_of_fields(HyphenFields(text))

\* a < b for datetime
date_less(a, b) ==
    \/ a.year < b.year
    \/ a.year = b.year /\ a.month < b.month
    \/ a.year = b.year /\ a.month = b.month /\ a.day < b.day

\* d + timedelta(days = 1)
next_day(d) ==
    IF d.day < DaysInMonth(d.year, d.month) THEN [d EXCEPT !.day = d.day + 1]
    ELSE IF d.month < 12 THEN [d EXCEPT !.month = d.month + 1, !.day = 1]
    ELSE [year |-> d.year + 1, month |-> 1, day |-> 1]

DigitChar(n) == Digits[n + 1]

TwoDigits(n) == <<DigitChar(n \div 10), DigitChar(n % 10)>>

FourDigits(n) == TwoDigits(n \div 100) \o TwoDigits(n % 100)

\* d.strftime("%Y-%m-%d")
strftime_iso(d) == FourDigits(d.year) \o <<"-">> \o TwoDigits(d.month) \o <<"-">> \o TwoDigits(d.day)

MonthNames ==
    <<"January", "February", "March", "April", "May", "June", "July",
      "August", "September", "October", "November", "December">>

\* d.strftime("%B %d, %Y")
strftime_long(d) == [B |-> MonthNames[d.month], d |-> TwoDigits(d.day), Y |-> FourDigits(d.year)]

\* a range check that lets a check-out on the check-in day through
validate_date_range_same_day(check_in_date, check_out_date) ==
    /\ strptime(check_in_date) # None
    /\ strptime(check_out_date) # None
    /\ ~date_less(strptime(check_out_date)[1], strptime(check_in_date)[1])

\* check_in < check_out, False when strptime raised ValueError
check_in_before_check_out(check_in, check_out) ==
    IF check_in = None \/ check_out = None THEN FALSE
    ELSE date_less(check_in[1], check_out[1])

\* _validate_date_range
validate_date_range(check_in_date, check_out_date) ==
    check_in_before_check_out(strptime(check_in_date), strptime(check_out_date))

RECURSIVE DatesFrom(_, _)
DatesFrom(current_date, end) ==
    IF date_less(current_date, end)
    THEN <<strftime_iso(current_date)>> \o DatesFrom(next_day(current_date), end)
    ELSE <<>>

\* _get_date_range: the dates from start_date up to, excluding, end_date
get_date_range(start_date, end_date) ==
    DatesFrom(strptime(start_date)[1], strptime(end_date)[1])

(***************************************************************************)
(* DateParserService.parse_date.  What dateparser.parse makes of a text is *)
(* the library's: nothing (None), an exception, or some date.  A call ends *)
(* with the string it returns or with the ValueError it raises.            *)
(***************************************************************************)
Returned(value) == [raised |-> FALSE, value |-> value]

Raised(error, message) == [raised |-> TRUE, error |-> error, message |-> message]

\* is_valid_date_format
is_valid_date_format(date_str) == strptime(date_str) # None

\* len(date_input) == 10 and date_input.count('-') == 2, and strptime
\* accepts the text: the two ISO-like checks after the first one
iso_like(date_input) ==
    /\ Len(date_input) = 10
    /\ Cardinality({i \in 1..Len(date_input) : date_input[i] = "-"}) = 2
    /\ strptime(date_input) # None

\* the try block around dateparser.parse: any exception in it, its own
\* ValueErrors too, is raised again as one ValueError
parse_with_dateparser(date_input, parsed) ==
    IF parsed.kind = "date" /\ parsed.date.year <= 2030
    THEN Returned(strftime_iso(parsed.date))
    ELSE Raised("ValueError",
                [text |-> "Invalid date format: {date_input}. Please use formats like '2025-09-09', '9th Sept 2025', or 'September 9'",
                 date_input |-> date_input])

\* parse_date after the strip
parse_stripped(date_input, parsed) ==
    IF is_valid_date_format(date_input) THEN Returned(date_input)
    ELSE IF iso_like(date_input) THEN Returned(date_input)
    ELSE parse_with_dateparser(date_input, parsed)

\* parse_date, for what dateparser.parse would make of the stripped text
parse_date(date_input, parsed) ==
    IF date_input = <<>> \/ str_strip(date_input) = <<>>
    THEN Raised("ValueError", [text |-> "Empty date input"])
    ELSE parse_stripped(str_strip(date_input), parsed)

(***************************************************************************)
(* The loaded table: a sequence of rows [Identifier, date, status,         *)
(* listing_price], dates already normalised to YYYY-MM-DD by _load_data.   *)
(* listing_price is None for a blank or non-numeric cell.                  *)
(***************************************************************************)
\* self._data_cache['Identifier'].unique().tolist(): first appearances
RECURSIVE UniqueFrom(_, _, _)
UniqueFrom(rows, i, seen) ==
    IF i > Len(rows) THEN seen
    ELSE IF \E k \in 1..Len(seen) : seen[k] = rows[i].Identifier
    THEN UniqueFrom(rows, i + 1, seen)
    ELSE UniqueFrom(rows, i + 1, Append(seen, rows[i].Identifier))

unique_identifiers(rows) == UniqueFrom(rows, 1, <<>>)

\* the rows of one identifier on one date, the last loaded first
day_data_latest_first(rows, prop_name, date) ==
    LET found == SelectSeq(rows, LAMBDA r : r.date = date /\ r.Identifier = prop_name)
    IN  [k \in 1..Len(found) |-> found[Len(found) + 1 - k]] \o <<>>

\* the rows of one identifier on one date, in load order
day_data_of(rows, prop_name, date) ==
    SelectSeq(rows, LAMBDA r : r.date = date /\ r.Identifier = prop_name)

\* int(day_record['listing price']), 0 when the conversion fails
int_price(day_record) ==
    IF day_record.listing_price = None THEN 0 ELSE day_record.listing_price[1]

RECURSIVE WalkFrom(_, _, _, _, _)
\* the loop over date_range for one identifier: stops at the first date
\* that has no record or a record whose status is not 'available'
WalkFrom(rows, prop_name, date_range, i, total_price) ==
    IF i > Len(date_range)
    THEN [is_available |-> TRUE, total_price |-> total_price, visited |-> Len(date_range)]
    ELSE LET day_data == day_data_of(rows, prop_name, date_range[i])
         IN  IF day_data = <<>>
             THEN [is_available |-> FALSE, total_price |-> total_price, visited |-> i]
             ELSE IF day_data[1].status # "available"
             THEN [is_available |-> FALSE, total_price |-> total_price, visited |-> i]
             ELSE WalkFrom(rows, prop_name, date_range, i + 1,
                           total_price + int_price(day_data[1]))

\* a per-night price that rounds up
per_night_price_rounded_up(total_price, date_range) ==
    IF date_range # <<>> /\ total_price > 0
    THEN Some((total_price + Len(date_range) - 1) \div Len(date_range))
    ELSE None

\* a per-night price that is given for any total
per_night_price_of_any_total(total_price, date_range) ==
    IF date_range # <<>>
    THEN Some(total_price \div Len(date_range))
    ELSE None

\* int(total_price / len(date_range)) if date_range and total_price > 0
per_night_price_of(total_price, date_range) ==
    IF date_range # <<>> /\ total_price > 0
    THEN Some(total_price \div Len(date_range))
    ELSE None

\* an entry that looks at the check-in date only
property_entry_check_in_only(rows, prop_name, date_range) ==
    LET w == WalkFrom(rows, prop_name, SubSeq(date_range, 1, 1), 1, 0)
    IN  [Identifier |-> prop_name,
         availability |-> IF w.is_available THEN "available"
                          ELSE "information not available. experience team will contact the caller.",
         per_night_price |-> IF date_range # <<>> /\ w.total_price > 0
                             THEN Some(w.total_price \div Len(date_range)) ELSE None,
         is_available |-> w.is_available]

\* one entry of property_data
property_entry(rows, prop_name, date_range) ==
    LET w == WalkFrom(rows, prop_name, date_range, 1, 0)
    IN  [Identifier |-> prop_name,
         availability |-> IF w.is_available THEN "available"
                          ELSE "information not available. experience team will contact the caller.",
         per_night_price |-> per_night_price_of(w.total_price, date_range),
         is_available |-> w.is_available]

\* _get_property_availability_range
get_property_availability_range(rows, property_names, check_in_date, check_out_date) ==
    LET date_range == get_date_range(check_in_date, check_out_date)
    IN  [k \in 1..Len(property_names) |->
            property_entry(rows, property_names[k], date_range)] \o <<>>

RECURSIVE LookupsFrom(_, _, _, _)
LookupsFrom(rows, property_names, date_range, k) ==
    IF k > Len(property_names) THEN <<>>
    ELSE LET w == WalkFrom(rows, property_names[k], date_range, 1, 0)
         IN  [j \in 1..w.visited |-> <<property_names[k], date_range[j]>>]
             \o LookupsFrom(rows, property_names, date_range, k + 1)

\* the (identifier, date) lookups _get_property_availability_range makes
availability_lookups(rows, property_names, check_in_date, check_out_date) ==
    LookupsFrom(rows, property_names, get_date_range(check_in_date, check_out_date), 1)

(***************************************************************************)
(* Loading: PropertySearchService.__init__ and _load_data.  A file is      *)
(* unreadable, or holds a frame: its column labels as they are written and *)
(* its rows, the fields of a row named after the four columns of the       *)
(* sheet whatever is written around their labels.                          *)
(***************************************************************************)
\* the labels the service reads the frame by
IdentifierLabel == <<"I","d","e","n","t","i","f","i","e","r">>

DateLabel == <<"d","a","t","e">>

StatusLabel == <<"s","t","a","t","u","s">>

ListingPriceLabel == <<"l","i","s","t","i","n","g"," ","p","r","i","c","e">>

LoadedColumns == <<IdentifierLabel, DateLabel, StatusLabel, ListingPriceLabel>>

CsvFile(labels, rows) == [readable |-> TRUE, columns |-> labels, rows |-> rows]

NoCsvFile == [readable |-> FALSE, columns |-> <<>>, rows |-> <<>>]

\* pd.read_csv(self.csv_file_path): None when it raises
read_csv(file) == IF file.readable THEN Some(file) ELSE None

\* self._data_cache.columns.str.strip()
columns_stripped(labels) == [i \in 1..Len(labels) |-> str_strip(labels[i])] \o <<>>

\* the frame has a column with this label
has_column(labels, label) == \E i \in 1..Len(labels) : labels[i] = label

\* a date column that keeps what it cannot parse
to_datetime_keeping_unparsed(labels, rows) ==
    IF ~has_column(labels, DateLabel) THEN None
    ELSE Some([k \in 1..Len(rows) |->
                  IF strptime(rows[k].date) = None THEN rows[k]
                  ELSE [rows[k] EXCEPT !.date = strftime_iso(strptime(rows[k].date)[1])]]
              \o <<>>)

\* pd.to_datetime(self._data_cache['date']).dt.strftime('%Y-%m-%d'): None
\* when there is no 'date' column or a date does not parse
to_datetime_strftime(labels, rows) ==
    IF ~has_column(labels, DateLabel) THEN None
    ELSE IF \E k \in 1..Len(rows) : strptime(rows[k].date) = None THEN None
    ELSE Some([k \in 1..Len(rows) |->
                  [rows[k] EXCEPT !.date = strftime_iso(strptime(rows[k].date)[1])]]
              \o <<>>)

(***************************************************************************)
(* The response: _format_search_response and the two fixed responses.      *)
(* A message is its template with the values it is filled with.            *)
(***************************************************************************)
\* the long form of both parsed dates, or both texts as given when one
\* of them does not parse
formatted_or_raw(check_in, check_out, check_in_date, check_out_date) ==
    IF check_in # None /\ check_out # None
    THEN [check_in |-> strftime_long(check_in[1]), check_out |-> strftime_long(check_out[1])]
    ELSE [check_in |-> [raw |-> check_in_date], check_out |-> [raw |-> check_out_date]]

\* formatted_check_in and formatted_check_out of the summary
formatted_dates(check_in_date, check_out_date) ==
    formatted_or_raw(strptime(check_in_date), strptime(check_out_date),
                     check_in_date, check_out_date)

MinOf(prices) ==
    LET S == {prices[i] : i \in 1..Len(prices)} IN CHOOSE m \in S : \A v \in S : m <= v

MaxOf(prices) ==
    LET S == {prices[i] : i \in 1..Len(prices)} IN CHOOSE m \in S : \A v \in S : v <= m

\* a price_text that names the first price whenever there is one
price_text_of_first_price(price_range, prices) ==
    IF prices # <<>>
    THEN [text |-> "Per-night price is {price}.", price |-> prices[1]]
    ELSE IF price_range # None
    THEN [text |-> "Per-night prices range from {min} to {max}.",
          min |-> price_range[1].min, max |-> price_range[1].max]
    ELSE [text |-> "Pricing information available."]

\* price_text of the summary
price_text_of(price_range, prices) ==
    IF price_range # None
    THEN [text |-> "Per-night prices range from {min} to {max}.",
          min |-> price_range[1].min, max |-> price_range[1].max]
    ELSE IF prices # <<>>
    THEN [text |-> "Per-night price is {price}.", price |-> prices[1]]
    ELSE [text |-> "Pricing information available."]

\* the summary for the formatted dates f
summary_of(f, search_term, total_found, available_count, price_range, prices) ==
    IF total_found = 0
    THEN [text |-> "No properties found matching '{search_term}'.",
          search_term |-> search_term]
    ELSE IF available_count = 0
    THEN [text |-> "Found {total_found} {search_term} properties, but none are available from {check_in} to {check_out}.",
          total_found |-> total_found, search_term |-> search_term,
          check_in |-> f.check_in, check_out |-> f.check_out]
    ELSE [text |-> "Found {total_found} {search_term} properties for {check_in} to {check_out}. {price_text} {available_count} properties are currently available.",
          total_found |-> total_found, search_term |-> search_term,
          check_in |-> f.check_in, check_out |-> f.check_out,
          price_text |-> price_text_of(price_range, prices),
          available_count |-> available_count]

\* _generate_summary_range
generate_summary_range(search_term, check_in_date, check_out_date, total_found, available_count, price_range, prices) ==
    summary_of(formatted_dates(check_in_date, check_out_date), search_term,
               total_found, available_count, price_range, prices)

\* an entry that hands on what the availability walk computed
properties_entry_as_computed(prop_name, property_data) ==
    LET at == {k \in 1..Len(property_data) : property_data[k].Identifier = prop_name}
    IN  IF at # {}
        THEN LET prop_data == property_data[CHOOSE k \in at : \A h \in at : h <= k]
             IN  [name |-> prop_name,
                  availability |-> IF prop_data.is_available THEN prop_data.availability
                                   ELSE "Property data not available.",
                  per_night_price |-> prop_data.per_night_price]
        ELSE [name |-> prop_name,
              availability |-> "Property data not available.",
              per_night_price |-> None]

\* an entry that keeps the price of what is not available
entry_of_keeping_price(prop_name, prop_data) ==
    IF prop_data # None /\ prop_data[1].is_available
    THEN [name |-> prop_name,
          availability |-> prop_data[1].availability,
          per_night_price |-> prop_data[1].per_night_price]
    ELSE [name |-> prop_name,
          availability |-> "Property data not available.",
          per_night_price |-> IF prop_data # None THEN prop_data[1].per_night_price ELSE None]

\* the entry of properties_list for prop_data, the entry property_map has
\* for the identifier, if it has one
entry_of(prop_name, prop_data) ==
    IF prop_data # None /\ prop_data[1].is_available
    THEN [name |-> prop_name,
          availability |-> prop_data[1].availability,
          per_night_price |-> prop_data[1].per_night_price]
    ELSE [name |-> prop_name,
          availability |-> "Property data not available.",
          per_night_price |-> None]

\* property_map[prop_name]: the last entry of property_data for it
property_map_get(prop_name, property_data) ==
    LET at == {k \in 1..Len(property_data) : property_data[k].Identifier = prop_name}
    IN  IF at = {} THEN None
        ELSE Some(property_data[CHOOSE k \in at : \A h \in at : h <= k])

\* the entry of properties_list for one matched identifier
properties_entry(prop_name, property_data) ==
    entry_of(prop_name, property_map_get(prop_name, property_data))

RECURSIVE PricesFrom(_, _)
\* prices: the per-night prices of the available entries that have one
PricesFrom(properties_list, i) ==
    IF i > Len(properties_list) THEN <<>>
    ELSE (IF properties_list[i].availability = "available"
             /\ properties_list[i].per_night_price # None
          THEN <<properties_list[i].per_night_price[1]>> ELSE <<>>)
         \o PricesFrom(properties_list, i + 1)

\* a properties_list with the available entries first
properties_list_available_first(matched_properties, property_data) ==
    LET all == [k \in 1..Len(matched_properties) |->
                   properties_entry(matched_properties[k], property_data)] \o <<>>
    IN  SelectSeq(all, LAMBDA e : e.availability = "available")
        \o SelectSeq(all, LAMBDA e : e.availability # "available")

\* properties_list: one entry per matched identifier, in matched order
properties_list_of(matched_properties, property_data) ==
    [k \in 1..Len(matched_properties) |->
        properties_entry(matched_properties[k], property_data)] \o <<>>

\* a price range given whenever there is a price
price_range_of_any_price(prices) ==
    IF prices # <<>>
    THEN Some([min |-> MinOf(prices), max |-> MaxOf(prices)])
    ELSE None

\* price_range: only for more than one distinct price
price_range_of(prices) ==
    IF prices # <<>> /\ Cardinality({prices[i] : i \in 1..Len(prices)}) > 1
    THEN Some([min |-> MinOf(prices), max |-> MaxOf(prices)])
    ELSE None

\* the response dictionary
response_of(search_term, check_in_date, check_out_date, total_found, properties_list, available_count, prices, price_range) ==
    [found |-> TRUE,
     search_term |-> search_term,
     check_in_date |-> check_in_date,
     check_out_date |-> check_out_date,
     total_found |-> total_found,
     available_count |-> available_count,
     properties |-> properties_list,
     price_range |-> price_range,
     summary |-> generate_summary_range(search_term, check_in_date, check_out_date,
                     total_found, available_count, price_range, prices)]

\* available_count: the entries that were added as available
available_count_of(properties_list) ==
    Cardinality({k \in 1..Len(properties_list) :
                    properties_list[k].availability = "available"})

\* the response for properties_list and prices
priced_response(search_term, check_in_date, check_out_date, total_found, properties_list, prices) ==
    response_of(search_term, check_in_date, check_out_date, total_found, properties_list,
                available_count_of(properties_list), prices, price_range_of(prices))

\* the response for properties_list
listed_response(search_term, check_in_date, check_out_date, total_found, properties_list) ==
    priced_response(search_term, check_in_date, check_out_date, total_found,
                    properties_list, PricesFrom(properties_list, 1))

\* a response whose found flag follows available_count
found_if_available(response) == [response EXCEPT !.found = response.available_count > 0]

format_search_response_found_if_available(search_term, check_in_date, check_out_date, matched_properties, property_data) ==
    found_if_available(
        listed_response(search_term, check_in_date, check_out_date, Len(matched_properties),
                        properties_list_of(matched_properties, property_data)))

\* _format_search_response
format_search_response(search_term, check_in_date, check_out_date, matched_properties, property_data) ==
    listed_response(search_term, check_in_date, check_out_date, Len(matched_properties),
                    properties_list_of(matched_properties, property_data))

\* _no_properties_found_response
no_properties_found_response(search_term, check_in_date, check_out_date) ==
    LET text == [text |-> "No properties found matching '{search_term}'. Try searching for 'Aurelia', 'Siena', or 'Monforte'.",
                 search_term |-> search_term]
    IN  [found |-> FALSE, search_term |-> search_term,
         check_in_date |-> check_in_date, check_out_date |-> check_out_date,
         total_found |-> 0, available_count |-> 0, properties |-> <<>>,
         price_range |-> None, summary |-> text, message |-> text]

\* _invalid_date_range_response
invalid_date_range_response(search_term, check_in_date, check_out_date) ==
    LET text == [text |-> "Invalid date range: check-in date must be before check-out date."]
    IN  [found |-> FALSE, search_term |-> search_term,
         check_in_date |-> check_in_date, check_out_date |-> check_out_date,
         total_found |-> 0, available_count |-> 0, properties |-> <<>>,
         price_range |-> None, summary |-> text, message |-> text]

(***************************************************************************)
(* The inputs the model draws from.                                        *)
(***************************************************************************)
MiraVilla == <<"M","i","r","a"," ","V","i","l","l","a">>

MiraHouse == <<"M","i","r","a","-","H","o","u","s","e">>

Mira == <<"M","i","r","a">>

Mirora == <<"M","i","r","o","r","a">>

\* the search terms: a substring hit (with case and padding), an empty
\* term, reordered and hyphenated words, a misspelling, and a generic-only
\* and a specific term that nothing matches
TermPool ==
    { <<"M","I","R","A"," ">>,
      <<" ">>,
      <<"v","i","l","l","a"," ","m","i","r","a">>,
      <<"m","i","r","a"," ","h","o","u","s","e">>,
      <<"m","i","r","r","a">>,
      <<"m","a","n","o","r">>,
      <<"z","q">> }

Sep30 == <<"2","0","2","5","-","0","9","-","3","0">>

Oct01 == <<"2","0","2","5","-","1","0","-","0","1">>

Oct02 == <<"2","0","2","5","-","1","0","-","0","2">>

\* 2025-10-1: parseable, not zero-padded
Oct1Short == <<"2","0","2","5","-","1","0","-","1">>

\* 2025-09-31: no such day
Sep31 == <<"2","0","2","5","-","0","9","-","3","1">>

Tomorrow == <<"t","o","m","o","r","r","o","w">>

\* (check_in_date, check_out_date): one and two nights inside and across
\* the table's dates, with and without zero padding; equal, inverted and
\* unparseable dates
DateRangePool ==
    { <<Sep30, Oct01>>, <<Sep30, Oct02>>, <<Oct01, Oct02>>, <<Oct1Short, Oct02>>,
      <<Oct01, Oct01>>, <<Oct02, Sep30>>, <<Sep31, Oct02>>, <<Sep30, Tomorrow>> }

\* the dates the table may hold records for
TableDates == <<Sep30, Oct01>>

\* the largest listing price of a record
MaxPrice == 1

\* what the table holds for one identifier on one date: no record, or a
\* record with a status and a price
CellOptions ==
    {[status |-> "missing", listing_price |-> None],
     [status |-> "booked", listing_price |-> Some(MaxPrice)],
     [status |-> "available", listing_price |-> None]}
    \cup {[status |-> "available", listing_price |-> Some(p)] : p \in 0..MaxPrice}

\* a table's cells when every date of every identifier is open and priced
PricedCells == {c \in CellOptions : c.status = "available" /\ c.listing_price # None}

\* the identifiers of a table, in the order of their first rows, with the
\* cells their dates are filled from
TableShapes ==
    { <<<<>>, CellOptions>>,
      <<<<MiraVilla, MiraHouse>>, CellOptions>>,
      <<<<MiraHouse, MiraVilla>>, PricedCells>>,
      <<<<Mira, Mirora>>, PricedCells>>,
      <<<<Mirora, Mira>>, PricedCells>> }

RECURSIVE RowsFrom(_, _, _)
\* the rows of a table: identifier by identifier, date by date
RowsFrom(order, cells, k) ==
    IF k > Len(order) * Len(TableDates) THEN <<>>
    ELSE LET i == ((k - 1) \div Len(TableDates)) + 1
             j == ((k - 1) % Len(TableDates)) + 1
         IN  (IF cells[k].status = "missing" THEN <<>>
              ELSE <<[Identifier |-> order[i], date |-> TableDates[j],
                      status |-> cells[k].status,
                      listing_price |-> cells[k].listing_price]>>)
             \o RowsFrom(order, cells, k + 1)

\* tables that hold a second record for Mira Villa on the first date, after
\* all the first records
DuplicateTables ==
    {RowsFrom(<<MiraVilla, MiraHouse>>,
              <<first, [status |-> "available", listing_price |-> Some(MaxPrice)],
                [status |-> "available", listing_price |-> Some(MaxPrice)],
                [status |-> "available", listing_price |-> Some(MaxPrice)]>>, 1)
     \o <<[Identifier |-> MiraVilla, date |-> TableDates[1],
           status |-> second.status, listing_price |-> second.listing_price]>> :
        first \in {c \in CellOptions : c.status # "missing"},
        second \in {c \in CellOptions : c.status # "missing"}}

Tables ==
    UNION {{RowsFrom(sh[1], cells, 1) :
                cells \in [1..(Len(sh[1]) * Len(TableDates)) -> sh[2]]} :
              sh \in TableShapes}
    \cup DuplicateTables

(***************************************************************************)
(* search_properties: what the call returns or that it raised, and what    *)
(* it did on the way (resolver calls, stages, availability lookups).       *)
(***************************************************************************)
Outcome(raised, result, resolver_calls, stages, candidates, lookups) ==
    [raised |-> raised, result |-> result, resolver_calls |-> resolver_calls,
     stages |-> stages, candidates |-> candidates, lookups |-> lookups]

\* from the resolver's answer to the return statement
search_matched(found, rows, property_name, check_in_date, check_out_date) ==
    IF found.raised
    THEN Outcome(TRUE, None, 1, found.stages, <<>>, <<>>)
    ELSE IF found.matches = <<>>
    THEN Outcome(FALSE,
                 Some(no_properties_found_response(property_name, check_in_date, check_out_date)),
                 1, found.stages, <<>>, <<>>)
    ELSE Outcome(FALSE,
                 Some(format_search_response(property_name, check_in_date, check_out_date,
                         found.matches,
                         get_property_availability_range(rows, found.matches,
                             check_in_date, check_out_date))),
                 1, found.stages, found.matches,
                 availability_lookups(rows, found.matches, check_in_date, check_out_date))

\* from all_property_names to the return statement
search_identifiers(all_property_names, rows, property_name, check_in_date, check_out_date) ==
    IF all_property_names = <<>>
    THEN Outcome(FALSE,
                 Some(no_properties_found_response(property_name, check_in_date, check_out_date)),
                 0, {}, <<>>, <<>>)
    ELSE search_matched(fuzzy_search_properties(property_name, all_property_names),
                        rows, property_name, check_in_date, check_out_date)

\* search_properties
search_properties(cache, property_name, check_in_date, check_out_date) ==
    IF cache = None
    THEN Outcome(TRUE, None, 0, {}, <<>>, <<>>)
    ELSE IF ~validate_date_range(check_in_date, check_out_date)
    THEN Outcome(FALSE,
                 Some(invalid_date_range_response(property_name, check_in_date, check_out_date)),
                 0, {}, <<>>, <<>>)
    ELSE search_identifiers(unique_identifiers(cache[1]), cache[1],
                            property_name, check_in_date, check_out_date)

(***************************************************************************)
(* The search on a frame that may lack a column the service reads.  A read *)
(* of a column the frame does not have is a KeyError: of 'Identifier', in  *)
(* search_properties, which raises it again; of 'status' or 'listing       *)
(* price', inside the try of _get_property_availability_range, which       *)
(* answers it with an empty property_data.                                 *)
(***************************************************************************)
\* the lookup finds a record and then reads a column that is not there:
\* 'status', or 'listing price' once the status is 'available'
lookup_raises(labels, rows, lookup) ==
    /\ day_data_of(rows, lookup[1], lookup[2]) # <<>>
    /\ \/ ~has_column(labels, StatusLabel)
       \/ /\ day_data_of(rows, lookup[1], lookup[2])[1].status = "available"
          /\ ~has_column(labels, ListingPriceLabel)

\* the places, among the lookups of a frame with every column, of those
\* that raise; the lookups up to the first of them are the ones made
raising_lookups(labels, rows, lookups) ==
    {j \in 1..Len(lookups) : lookup_raises(labels, rows, lookups[j])}

\* the lookups made: all of them, or those up to the first that raises
lookups_made(lookups, raising) ==
    IF raising = {} THEN lookups
    ELSE SubSeq(lookups, 1, CHOOSE j \in raising : \A h \in raising : j <= h)

\* a property_data that is computed whatever columns the frame has
property_data_whatever_columns(labels, rows, property_names, check_in_date, check_out_date) ==
    get_property_availability_range(rows, property_names, check_in_date, check_out_date)

\* _get_property_availability_range with its except branch: [] when a
\* lookup raises
property_data_in_frame(labels, rows, property_names, check_in_date, check_out_date) ==
    IF raising_lookups(labels, rows,
           availability_lookups(rows, property_names, check_in_date, check_out_date)) # {}
    THEN <<>>
    ELSE get_property_availability_range(rows, property_names, check_in_date, check_out_date)

\* the outcome of a call whose resolver found candidates, for the frame
outcome_in_frame(labels, rows, outcome, property_name, check_in_date, check_out_date) ==
    IF outcome.candidates = <<>> THEN outcome
    ELSE [outcome EXCEPT
            !.result = Some(format_search_response(property_name, check_in_date,
                                check_out_date, outcome.candidates,
                                property_data_in_frame(labels, rows, outcome.candidates,
                                                       check_in_date, check_out_date))),
            !.lookups = lookups_made(outcome.lookups,
                                     raising_lookups(labels, rows, outcome.lookups))]

\* search_properties on the frame with these column labels
search_in_frame(labels, cache, property_name, check_in_date, check_out_date) ==
    IF cache = None \/ ~validate_date_range(check_in_date, check_out_date)
    THEN search_properties(cache, property_name, check_in_date, check_out_date)
    ELSE IF ~has_column(labels, IdentifierLabel)
    THEN Outcome(TRUE, None, 0, {}, <<>>, <<>>)
    ELSE outcome_in_frame(labels, cache[1],
             search_properties(cache, property_name, check_in_date, check_out_date),
             property_name, check_in_date, check_out_date)

(***************************************************************************)
(* The service as a state machine.  One caller at a time runs a whole      *)
(* call (SearchProperties, Return); and, for calls that share the loaded   *)
(* table, each worker runs its call statement by statement (Call ..        *)
(* FormatResponse), its locals its own.                                    *)
(***************************************************************************)
VARIABLES
    csv_file,     \* the file at csv_file_path
    data_cache,   \* self._data_cache: None, or the rows of the frame
    columns,      \* the column labels of that frame
    pc,           \* where the service is: being constructed ("loading",
                  \* "read", "stripped"), not constructed ("failed"), ready
                  \* ("idle"), or "returned" once a call has ended
    request,      \* the arguments of the latest call
    response,     \* its outcome
    workers       \* per concurrent call: its position and its locals

vars == <<csv_file, data_cache, columns, pc, request, response, workers>>

Workers == {"a", "b"}

IdleWorker ==
    [pc |-> "idle", args |-> None, matches |-> <<>>, date_range |-> <<>>,
     k |-> 1, i |-> 1, total_price |-> 0, property_data |-> <<>>, out |-> None]

Init ==
    /\ data_cache \in {Some(t) : t \in Tables}
    /\ csv_file = CsvFile(LoadedColumns, data_cache[1])
    /\ columns = LoadedColumns
    /\ pc = "idle"
    /\ request = None
    /\ response = None
    /\ workers = [w \in Workers |-> IdleWorker]

\* a caller runs search_properties to its end
SearchProperties(property_name, check_in_date, check_out_date) ==
    /\ pc = "idle"
    /\ request' = Some([property_name |-> property_name,
                        check_in_date |-> check_in_date,
                        check_out_date |-> check_out_date])
    /\ response' = Some(search_in_frame(columns, data_cache, property_name,
                                        check_in_date, check_out_date))
    /\ pc' = "returned"
    /\ UNCHANGED <<csv_file, data_cache, columns, workers>>

\* the caller takes the outcome; the service is ready for the next call
Return ==
    /\ pc = "returned"
    /\ pc' = "idle"
    /\ request' = None
    /\ response' = None
    /\ UNCHANGED <<csv_file, data_cache, columns, workers>>

Next ==
    \/ \E n \in TermPool : \E r \in DateRangePool :
           SearchProperties(n, r[1], r[2])
    \/ Return

Spec == Init /\ [][Next]_vars

(***************************************************************************)
(* Concurrent calls on one loaded table.                                   *)
(***************************************************************************)
\* the tables, terms and ranges of the concurrent calls
ConcCells ==
    {[status |-> "missing", listing_price |-> None],
     [status |-> "available", listing_price |-> Some(1)]}

ConcTables ==
    {RowsFrom(<<MiraVilla, MiraHouse>>, cells, 1) :
        cells \in [1..(2 * Len(TableDates)) -> ConcCells]}

ConcTerms == { <<"M","I","R","A"," ">>, <<"m","i","r","a"," ","h","o","u","s","e">> }

ConcRanges == { <<Sep30, Oct02>>, <<Oct01, Oct01>> }

InitConc ==
    /\ data_cache \in {Some(t) : t \in ConcTables}
    /\ csv_file = CsvFile(LoadedColumns, data_cache[1])
    /\ columns = LoadedColumns
    /\ pc = "idle"
    /\ request = None
    /\ response = None
    /\ workers = [w \in Workers |-> IdleWorker]

\* search_properties is entered with its arguments, by a worker that has
\* no call running
Call(w, property_name, check_in_date, check_out_date) ==
    /\ workers[w].pc \in {"idle", "done"}
    /\ workers' = [workers EXCEPT ![w] =
           [IdleWorker EXCEPT !.pc = "validate",
                              !.args = Some([property_name |-> property_name,
                                             check_in_date |-> check_in_date,
                                             check_out_date |-> check_out_date])]]
    /\ UNCHANGED <<csv_file, data_cache, columns, pc, request, response>>

\* the range check
ValidateRange(w) ==
    LET me == workers[w]
        a  == me.args[1]
    IN  /\ me.pc = "validate"
        /\ workers' = [workers EXCEPT ![w] =
               IF validate_date_range(a.check_in_date, a.check_out_date)
               THEN [me EXCEPT !.pc = "resolve"]
               ELSE [me EXCEPT !.pc = "done",
                               !.out = Some(invalid_date_range_response(
                                   a.property_name, a.check_in_date, a.check_out_date))]]
        /\ UNCHANGED <<csv_file, data_cache, columns, pc, request, response>>

\* the worker after the resolver's answer: returned with the no-properties
\* response, or on to the availability of its matches
after_resolving(me, a, all_property_names, found) ==
    IF all_property_names = <<>> \/ (~found.raised /\ found.matches = <<>>)
    THEN [me EXCEPT !.pc = "done",
                    !.out = Some(no_properties_found_response(
                        a.property_name, a.check_in_date, a.check_out_date))]
    ELSE IF found.raised
    THEN [me EXCEPT !.pc = "raised"]
    ELSE [me EXCEPT !.pc = "walk",
                    !.matches = found.matches,
                    !.date_range = get_date_range(a.check_in_date, a.check_out_date)]

\* the identifiers are read from the table and resolved
ResolveNames(w) ==
    /\ workers[w].pc = "resolve"
    /\ workers' = [workers EXCEPT ![w] =
           after_resolving(workers[w], workers[w].args[1],
                           unique_identifiers(data_cache[1]),
                           fuzzy_search_properties(workers[w].args[1].property_name,
                                                   unique_identifiers(data_cache[1])))]
    /\ UNCHANGED <<csv_file, data_cache, columns, pc, request, response>>

\* the worker with the current identifier's entry appended, at the next one
CandidateDone(me, is_available) ==
    LET entry == [Identifier |-> me.matches[me.k],
                  availability |-> IF is_available THEN "available"
                                   ELSE "information not available. experience team will contact the caller.",
                  per_night_price |-> per_night_price_of(me.total_price, me.date_range),
                  is_available |-> is_available]
    IN  [me EXCEPT !.property_data = Append(me.property_data, entry),
                   !.k = me.k + 1, !.i = 1, !.total_price = 0,
                   !.pc = IF me.k = Len(me.matches) THEN "format" ELSE "walk"]

\* a turn of the loop that takes the record it reads out of the table
LookupDayTakingRecord(w) ==
    LET me == workers[w]
        day_data == day_data_of(data_cache[1], me.matches[me.k], me.date_range[me.i])
    IN  /\ me.pc = "walk"
        /\ workers' = [workers EXCEPT ![w] =
               IF me.i > Len(me.date_range) THEN CandidateDone(me, TRUE)
               ELSE IF day_data = <<>> THEN CandidateDone(me, FALSE)
               ELSE IF day_data[1].status # "available" THEN CandidateDone(me, FALSE)
               ELSE [me EXCEPT !.i = me.i + 1,
                               !.total_price = me.total_price + int_price(day_data[1])]]
        /\ data_cache' =
               IF me.i > Len(me.date_range) THEN data_cache
               ELSE Some(SelectSeq(data_cache[1],
                            LAMBDA r : ~(r.date = me.date_range[me.i]
                                         /\ r.Identifier = me.matches[me.k])))
        /\ UNCHANGED <<csv_file, columns, pc, request, response>>

\* one turn of the loop over date_range: the table is read for the current
\* identifier and date; past the last date the identifier's entry is added
LookupDay(w) ==
    LET me == workers[w]
        day_data == day_data_of(data_cache[1], me.matches[me.k], me.date_range[me.i])
    IN  /\ me.pc = "walk"
        /\ workers' = [workers EXCEPT ![w] =
               IF me.i > Len(me.date_range) THEN CandidateDone(me, TRUE)
               ELSE IF day_data = <<>> THEN CandidateDone(me, FALSE)
               ELSE IF day_data[1].status # "available" THEN CandidateDone(me, FALSE)
               ELSE [me EXCEPT !.i = me.i + 1,
                               !.total_price = me.total_price + int_price(day_data[1])]]
        /\ UNCHANGED <<csv_file, data_cache, columns, pc, request, response>>

\* the response is assembled and returned
FormatResponse(w) ==
    LET me == workers[w]
        a  == me.args[1]
    IN  /\ me.pc = "format"
        /\ workers' = [workers EXCEPT ![w] =
               [me EXCEPT !.pc = "done",
                          !.out = Some(format_search_response(
                              a.property_name, a.check_in_date, a.check_out_date,
                              me.matches, me.property_data))]]
        /\ UNCHANGED <<csv_file, data_cache, columns, pc, request, response>>

NextConc ==
    \E w \in Workers :
        \/ \E n \in ConcTerms : \E r \in ConcRanges : Call(w, n, r[1], r[2])
        \/ ValidateRange(w)
        \/ ResolveNames(w)
        \/ LookupDay(w)
        \/ FormatResponse(w)

SpecConc == InitConc /\ [][NextConc]_vars

(***************************************************************************)
(* Construction: __init__ has set _data_cache to None and _load_data runs  *)
(* statement by statement.  An exception leaves the constructor: the       *)
(* module-level service is never bound and no request is served.           *)
(***************************************************************************)
\* labels with blanks around them
PaddedColumns ==
    << <<"I","d","e","n","t","i","f","i","e","r"," ">>, <<" ","d","a","t","e">>,
       StatusLabel, <<"l","i","s","t","i","n","g"," ","p","r","i","c","e"," ">> >>

\* a sheet whose date column has another label
OtherColumns == <<IdentifierLabel, <<"D","a","t","e">>, StatusLabel, ListingPriceLabel>>

\* the dates as the file writes them: padded, not padded, no such day
FileDates == {Oct01, Oct1Short, Sep31}

OpenRow(id, date) ==
    [Identifier |-> id, date |-> date, status |-> "available", listing_price |-> Some(1)]

CsvFiles ==
    {NoCsvFile}
    \cup {CsvFile(l, <<OpenRow(MiraVilla, d1), OpenRow(MiraHouse, d2)>>) :
            l \in {LoadedColumns, PaddedColumns, OtherColumns},
            d1 \in FileDates, d2 \in FileDates}

LoadTerms == { <<"M","I","R","A"," ">>, <<"m","i","r","a"," ","h","o","u","s","e">> }

LoadRanges == { <<Oct01, Oct02>>, <<Oct1Short, Oct02>>, <<Oct01, Oct01>> }

InitLoad ==
    /\ csv_file \in CsvFiles
    /\ data_cache = None
    /\ columns = <<>>
    /\ pc = "loading"
    /\ request = None
    /\ response = None
    /\ workers = [w \in Workers |-> IdleWorker]

\* self._data_cache = pd.read_csv(self.csv_file_path)
ReadCsv ==
    /\ pc = "loading"
    /\ IF read_csv(csv_file) = None
       THEN pc' = "failed" /\ UNCHANGED <<data_cache, columns>>
       ELSE /\ data_cache' = Some(read_csv(csv_file)[1].rows)
            /\ columns' = read_csv(csv_file)[1].columns
            /\ pc' = "read"
    /\ UNCHANGED <<csv_file, request, response, workers>>

\* the column labels are stripped
StripColumns ==
    /\ pc = "read"
    /\ columns' = columns_stripped(columns)
    /\ pc' = "stripped"
    /\ UNCHANGED <<csv_file, data_cache, request, response, workers>>

\* the date column is rewritten as YYYY-MM-DD, and the constructor returns
NormaliseDates ==
    /\ pc = "stripped"
    /\ IF to_datetime_strftime(columns, data_cache[1]) = None
       THEN pc' = "failed" /\ UNCHANGED data_cache
       ELSE /\ data_cache' = to_datetime_strftime(columns, data_cache[1])
            /\ pc' = "idle"
    /\ UNCHANGED <<csv_file, columns, request, response, workers>>

NextLoad ==
    \/ ReadCsv
    \/ StripColumns
    \/ NormaliseDates
    \/ \E n \in LoadTerms : \E r \in LoadRanges : SearchProperties(n, r[1], r[2])
    \/ Return

SpecLoad == InitLoad /\ [][NextLoad]_vars

(***************************************************************************)
(* Searches that differ in the term only, one night, on tables whose       *)
(* identifiers the three stages of the resolver tell apart.                *)
(***************************************************************************)
ManorEstateMirora == <<"V","i","l","l","a"," ","H","o","u","s","e"," ","M","a","n","o","r"," ","E","s","t","a","t","e"," ","M","i","r","o","r","a">>

ABCD == <<"A","-","B"," ","C"," ","D">>

Vila == <<"V","i","l","a">>

CotTangier == <<"C","o","t","-","T","a","n","g","i","e","r">>

\* one identifier more than a shortlist holds, each a part of 'villa'
VillaPieces ==
    << <<"v">>,
       <<"V">>,
       <<"i">>,
       <<"I">>,
       <<"l">>,
       <<"L">>,
       <<"a">>,
       <<"A">>,
       <<"v","i">>,
       <<"V","i">>,
       <<"v","I">>,
       <<"V","I">>,
       <<"i","l">>,
       <<"I","l">>,
       <<"i","L">>,
       <<"I","L">>,
       <<"l","l">>,
       <<"L","l">>,
       <<"l","L">>,
       <<"l","a">>,
       <<"L","A">> >>

\* the identifiers of a table, in the order of their rows
ResolverLists ==
    { <<ManorEstateMirora, ABCD>>, <<ABCD, ManorEstateMirora>>,
      <<Mira, Mirora>>, <<Mirora, Mira>>, <<MiraVilla, MiraHouse>>,
      <<Vila, CotTangier>>, <<CotTangier, Vila>>, VillaPieces }

ResolverTables ==
    {[k \in 1..Len(l) |-> OpenRow(l[k], Oct01)] \o <<>> : l \in ResolverLists}

\* empty and blank terms; five words of which four are in an identifier,
\* with a specific word that is there, nearly there, or not there; three of
\* five words; words in another order, across a hyphen; generic words only
ResolverTerms ==
    TermPool
    \cup {<<>>,
         <<" "," ">>,
         <<"a"," ","b"," ","c"," ","d"," ","e">>,
         <<"v","i","l","l","a"," ","h","o","u","s","e"," ","m","a","n","o","r"," ","e","s","t","a","t","e"," ","m","i","r","o","r","a","a">>,
         <<"v","i","l","l","a"," ","h","o","u","s","e"," ","m","a","n","o","r"," ","e","s","t","a","t","e"," ","z","q">>,
         <<"a"," ","b"," ","c"," ","x"," ","y">>,
         <<"d"," ","c">>,
         <<"h","o","u","s","e"," ","v","i","l","l","a">>,
         <<"v","i","l","l","a"," ","p","a","l","a","c","e">>,
         <<"c","o","t","t","a","g","e">>,
         <<"v","i","l","l","a">>}

InitResolver ==
    /\ data_cache \in {Some(t) : t \in ResolverTables}
    /\ csv_file = CsvFile(LoadedColumns, data_cache[1])
    /\ columns = LoadedColumns
    /\ pc = "idle"
    /\ request = None
    /\ response = None
    /\ workers = [w \in Workers |-> IdleWorker]

NextResolver ==
    \/ \E n \in ResolverTerms : SearchProperties(n, Oct01, Oct02)
    \/ Return

SpecResolver == InitResolver /\ [][NextResolver]_vars

(***************************************************************************)
(* Calls of parse_date, and of parse_date on what it returned.             *)
(***************************************************************************)
\* year-month-day texts, padded and not, with months and days there are
\* and there are not
IsoLikeInputs ==
    {y \o <<"-">> \o m \o <<"-">> \o d :
        y \in {<<"2","0","2","5">>, <<"2","0","3","1">>},
        m \in {<<"1","0">>, <<"9">>, <<"0","9">>, <<"1","3">>},
        d \in {<<"0","1">>, <<"1">>, <<"3","1">>, <<"3","2">>}}

\* the inputs of parse_date: empty, blank, in words, and year-month-day
\* texts as they are and with blanks around them
DateInputs ==
    { <<>>, <<" ">>, Tomorrow, <<"9","t","h"," ","S","e","p","t"," ","2","0","2","5">>, <<" ","2","0","2","5","-","1","0","-","0","1"," ">>, <<"2","0","2","5","-","1","0","-"," ","1">> }
    \cup IsoLikeInputs
    \cup {<<" ">> \o t \o <<" ">> : t \in IsoLikeInputs}

\* what dateparser.parse may make of a text
DateparserResults ==
    { [kind |-> "none"], [kind |-> "raises"],
      [kind |-> "date", date |-> [year |-> 2025, month |-> 9, day |-> 9]],
      [kind |-> "date", date |-> [year |-> 2031, month |-> 1, day |-> 1]] }

\* the parser stands alone: no table is loaded for it
InitDates ==
    /\ data_cache = None
    /\ csv_file = NoCsvFile
    /\ columns = <<>>
    /\ pc = "idle"
    /\ request = None
    /\ response = None
    /\ workers = [w \in Workers |-> IdleWorker]

\* a caller runs parse_date
ParseDate(date_input, parsed) ==
    /\ pc = "idle"
    /\ request' = Some([date_input |-> date_input])
    /\ response' = Some(parse_date(date_input, parsed))
    /\ pc' = "returned"
    /\ UNCHANGED <<csv_file, data_cache, columns, workers>>

\* the caller runs parse_date on the date it was given back
ParseAgain(parsed) ==
    /\ pc = "returned"
    /\ "date_input" \in DOMAIN request[1]
    /\ ~response[1].raised
    /\ request' = Some([date_input |-> response[1].value, again |-> TRUE])
    /\ response' = Some(parse_date(response[1].value, parsed))
    /\ UNCHANGED <<csv_file, data_cache, columns, pc, workers>>

NextDates ==
    \/ \E d \in DateInputs : \E parsed \in DateparserResults : ParseDate(d, parsed)
    \/ \E parsed \in DateparserResults : ParseAgain(parsed)
    \/ Return

SpecDates == InitDates /\ [][NextDates]_vars

(***************************************************************************)
(* The voice webhook: vapi_webhook, the models of its envelope and the     *)
(* error handler.  A dict is a record and "key in dict" is a test on its   *)
(* DOMAIN; a JSON text of an argument bag is [json |-> bag].  The handler  *)
(* ends with what it returns to the framework or with the exception that   *)
(* leaves it.                                                              *)
(***************************************************************************)
\* the fields SearchResult has no default for
SearchResultRequired ==
    {"found", "search_term", "check_in_date", "check_out_date",
     "total_found", "available_count", "properties", "summary"}

\* SearchResult(**kwargs): the model instance, or the ValidationError for
\* the required fields that were not given
SearchResult(kwargs) ==
    IF SearchResultRequired \subseteq DOMAIN kwargs
    THEN Returned([model |-> "SearchResult", fields |-> kwargs])
    ELSE Raised("ValidationError",
                [text |-> "SearchResult: field required",
                 fields |-> SearchResultRequired \ DOMAIN kwargs])

\* a str value, as the messages and summaries of the model are
is_str(value) == "text" \in DOMAIN value

\* VapiWebhookResult(toolCallId=..., result=...): result: str
VapiWebhookResult(toolCallId, result) ==
    IF is_str(result)
    THEN Returned([toolCallId |-> toolCallId, result |-> result])
    ELSE Raised("ValidationError",
                [text |-> "VapiWebhookResult: result: str type expected"])

\* the end of the three ErrorHandler methods:
\* VapiWebhookResponse(results=[VapiWebhookResult(toolCallId, result)])
error_response(tool_call_id, result) ==
    IF result.raised THEN result
    ELSE IF VapiWebhookResult(tool_call_id, result.value).raised
    THEN VapiWebhookResult(tool_call_id, result.value)
    ELSE Returned([kind |-> "VapiWebhookResponse",
                   results |-> <<VapiWebhookResult(tool_call_id, result.value).value>>])

\* the keyword arguments the three ErrorHandler methods give SearchResult
error_kwargs(check_date, text) ==
    [found |-> FALSE, search_term |-> <<>>, check_date |-> check_date,
     total_found |-> 0, available_count |-> 0, properties |-> <<>>,
     summary |-> text, message |-> text]

\* ErrorHandler.invalid_date_response
invalid_date_response(tool_call_id, invalid_date) ==
    error_response(tool_call_id,
        SearchResult(error_kwargs(invalid_date,
            [text |-> "Invalid date format: {invalid_date}. Please use formats like '2025-09-09', '9th Sept 2025', or 'September 9'.",
             invalid_date |-> invalid_date])))

\* ErrorHandler.search_error_response
search_error_response(tool_call_id, error_message) ==
    error_response(tool_call_id,
        SearchResult(error_kwargs(<<>>,
            [text |-> "Search error: {error_message}", error_message |-> error_message])))

\* ErrorHandler.generic_error_response
generic_error_response(tool_call_id, error_message) ==
    error_response(tool_call_id,
        SearchResult(error_kwargs(<<>>,
            [text |-> "Error processing request: {error_message}", error_message |-> error_message])))

\* the parameters of PropertySearchService.search_properties
SearchPropertiesParameters == {"property_name", "check_in_date", "check_out_date"}

\* property_search_service.search_properties(**kwargs): a keyword the
\* method does not have, or a parameter left without a value, is a
\* TypeError; else the call runs
call_search_properties(cache, kwargs) ==
    IF DOMAIN kwargs # SearchPropertiesParameters
    THEN Raised("TypeError",
                [text |-> "search_properties() got an unexpected keyword argument",
                 keywords |-> DOMAIN kwargs \ SearchPropertiesParameters])
    ELSE IF search_properties(cache, kwargs.property_name, kwargs.check_in_date, kwargs.check_out_date).raised
    THEN Raised("Exception", [text |-> "Property data not loaded"])
    ELSE Returned(search_properties(cache, kwargs.property_name, kwargs.check_in_date, kwargs.check_out_date).result[1])

\* the argument bag of a "toolCall" body, decoded when it is a JSON text
function_args_of(request_data) ==
    IF "json" \in DOMAIN request_data.toolCall.function.arguments
    THEN request_data.toolCall.function.arguments.json
    ELSE request_data.toolCall.function.arguments

\* tool_call_id, property_name and check_date_input of a body in one of
\* the two formats
extracted(request_data) ==
    IF "toolCall" \in DOMAIN request_data
    THEN [tool_call_id |-> request_data.toolCall.id,
          property_name |-> function_args_of(request_data).property_name,
          check_date_input |-> function_args_of(request_data).check_date]
    ELSE [tool_call_id |-> request_data.toolCallId,
          property_name |-> request_data.parameters.property_name,
          check_date_input |-> request_data.parameters.check_date]

\* the search and the envelope built from its summary, or the response of
\* the error handler for the exception of the search
search_and_respond(cache, tool_call_id, property_name, check_date) ==
    IF call_search_properties(cache, [property_name |-> property_name, check_date |-> check_date]).raised
    THEN search_error_response(tool_call_id,
             call_search_properties(cache, [property_name |-> property_name, check_date |-> check_date]).message)
    ELSE Returned([kind |-> "Response",
                   results |-> <<[toolCallId |-> tool_call_id,
                                  result |-> call_search_properties(cache, [property_name |-> property_name, check_date |-> check_date]).value.summary]>>])

\* the body of the outer try for a body in one of the two formats
handle_tool_call(cache, args, parsed) ==
    IF parse_date(args.check_date_input, parsed).raised
    THEN invalid_date_response(args.tool_call_id, args.check_date_input)
    ELSE search_and_respond(cache, args.tool_call_id, args.property_name,
                            parse_date(args.check_date_input, parsed).value)

\* the tool call id the outer except reads from the body again
tool_call_id_again(request_data) ==
    IF "toolCallId" \in DOMAIN request_data THEN request_data.toolCallId
    ELSE IF "toolCall" \in DOMAIN request_data /\ "id" \in DOMAIN request_data.toolCall
    THEN request_data.toolCall.id
    ELSE "unknown"

\* the outer except: whatever was raised inside the try is answered by
\* generic_error_response, whose own exception leaves the handler
outer_except(request_data, outcome) ==
    IF outcome.raised
    THEN generic_error_response(tool_call_id_again(request_data), outcome.message)
    ELSE outcome

\* vapi_webhook
vapi_webhook(cache, request_data, parsed) ==
    IF "toolCall" \in DOMAIN request_data \/ "toolCallId" \in DOMAIN request_data
    THEN outer_except(request_data, handle_tool_call(cache, extracted(request_data), parsed))
    ELSE Returned([kind |-> "dict", error |-> "Unknown request format"])

\* the tool call ids, names and dates of the bodies
ToolCallIds == {"call_1", "call_2"}

WebhookNames == {Mira, <<"z","z","z">>, <<>>}

WebhookDates == {Oct01, Oct1Short, Tomorrow, Sep31, <<>>, <<"9","t","h"," ","S","e","p","t"," ","2","0","2","5">>}

ArgumentBags ==
    {[property_name |-> n, check_date |-> d] : n \in WebhookNames, d \in WebhookDates}

\* the bodies: "toolCall" with a dict or a JSON text of the arguments,
\* "toolCallId" with parameters, and a body of neither format
RequestBodies ==
    {[toolCall |-> [id |-> id, function |-> [arguments |-> bag]]] :
        id \in ToolCallIds, bag \in ArgumentBags}
    \cup {[toolCall |-> [id |-> id, function |-> [arguments |-> [json |-> bag]]]] :
        id \in ToolCallIds, bag \in ArgumentBags}
    \cup {[toolCallId |-> id, parameters |-> bag] :
        id \in ToolCallIds, bag \in ArgumentBags}
    \cup {[message |-> "hello"]}

InitWebhook ==
    /\ data_cache \in {Some(t) : t \in ConcTables}
    /\ csv_file = CsvFile(LoadedColumns, data_cache[1])
    /\ columns = LoadedColumns
    /\ pc = "idle"
    /\ request = None
    /\ response = None
    /\ workers = [w \in Workers |-> IdleWorker]

\* the framework runs vapi_webhook on a body to its end
VapiWebhook(request_data, parsed) ==
    /\ pc = "idle"
    /\ request' = Some([request_data |-> request_data])
    /\ response' = Some(vapi_webhook(data_cache, request_data, parsed))
    /\ pc' = "returned"
    /\ UNCHANGED <<csv_file, data_cache, columns, workers>>

NextWebhook ==
    \/ \E body \in RequestBodies : \E parsed \in DateparserResults : VapiWebhook(body, parsed)
    \/ Return

SpecWebhook == InitWebhook /\ [][NextWebhook]_vars

(***************************************************************************)
(* Searches on frames that lack one of the columns read after loading.     *)
(***************************************************************************)
\* the labels of a sheet without the column with this label
ColumnsWithout(label) == SelectSeq(LoadedColumns, LAMBDA l : l # label)

\* the column labels of the frames: all four, or all but one ('date' is
\* there in every frame that loads)
FrameColumns ==
    {LoadedColumns, ColumnsWithout(StatusLabel), ColumnsWithout(ListingPriceLabel),
     ColumnsWithout(IdentifierLabel)}

\* per identifier and date: no record, a booked one, an open one
FrameCells ==
    {[status |-> "missing", listing_price |-> None],
     [status |-> "booked", listing_price |-> Some(1)],
     [status |-> "available", listing_price |-> Some(1)]}

FrameTables ==
    {RowsFrom(<<MiraVilla, MiraHouse>>, cells, 1) :
        cells \in [1..(2 * Len(TableDates)) -> FrameCells]}

InitFrame ==
    /\ data_cache \in {Some(t) : t \in FrameTables}
    /\ columns \in FrameColumns
    /\ csv_file = CsvFile(columns, data_cache[1])
    /\ pc = "idle"
    /\ request = None
    /\ response = None
    /\ workers = [w \in Workers |-> IdleWorker]

NextFrame ==
    \/ \E n \in ConcTerms : \E r \in ConcRanges : SearchProperties(n, r[1], r[2])
    \/ Return

SpecFrame == InitFrame /\ [][NextFrame]_vars

(***************************************************************************)
(* The store as the search is meant to see it, stated apart from the code: *)
(* the record of an (identifier, date) pair, the nights of a stay, and     *)
(* what a call that has returned was asked and answered.                   *)
(***************************************************************************)
\* the record the store holds for the pair: the first loaded, if any
RecordAt(rows, id, date) ==
    LET at == {k \in 1..Len(rows) : rows[k].Identifier = id /\ rows[k].date = date}
    IN  IF at = {} THEN None
        ELSE Some(rows[CHOOSE k \in at : \A h \in at : k <= h])

CalendarDays ==
    {d \in [year : {2025}, month : 9..10, day : 1..31] :
        d.day <= DaysInMonth(d.year, d.month)}

\* the dates d with check_in <= d < check_out, as the table writes them
StayNights(check_in_date, check_out_date) ==
    LET a == strptime(check_in_date)[1]
        b == strptime(check_out_date)[1]
    IN  {strftime_iso(d) : d \in {c \in CalendarDays : ~date_less(c, a) /\ date_less(c, b)}}

\* check_in is a date, check_out is a date, and check_in is before check_out
RangeIsValid(check_in_date, check_out_date) ==
    /\ strptime(check_in_date) # None
    /\ strptime(check_out_date) # None
    /\ date_less(strptime(check_in_date)[1], strptime(check_out_date)[1])

\* every night of the stay has a record whose status is 'available'
FullyAvailable(rows, id, check_in_date, check_out_date) ==
    \A t \in StayNights(check_in_date, check_out_date) :
        /\ RecordAt(rows, id, t) # None
        /\ RecordAt(rows, id, t)[1].status = "available"

RECURSIVE TotalOver(_, _, _)
\* the sum of the prices of the nights, a night without a price counting 0
TotalOver(rows, id, nights) ==
    IF nights = {} THEN 0
    ELSE LET t == CHOOSE t \in nights : TRUE
             r == RecordAt(rows, id, t)
         IN  (IF r = None \/ r[1].listing_price = None THEN 0 ELSE r[1].listing_price[1])
             + TotalOver(rows, id, nights \ {t})

\* a call has returned a result for a valid range
ReturnedForValidRange ==
    /\ pc = "returned"
    /\ ~response[1].raised
    /\ RangeIsValid(request[1].check_in_date, request[1].check_out_date)

(***************************************************************************)
(* Claims.                                                                 *)
(***************************************************************************)
\* C1: a call whose check-in is not strictly before its check-out, or one
\* of whose dates does not parse, returns the fixed invalid-range result
\* (found false, no counts, no properties, no price range, the fixed
\* summary) and never invokes the resolver.
C1_InvalidRangeRejected ==
    (pc = "returned"
        /\ ~RangeIsValid(request[1].check_in_date, request[1].check_out_date))
    => /\ ~response[1].raised
       /\ response[1].resolver_calls = 0
       /\ response[1].result # None
       /\ LET r == response[1].result[1]
          IN  /\ r.found = FALSE
              /\ r.total_found = 0
              /\ r.available_count = 0
              /\ r.properties = <<>>
              /\ r.price_range = None
              /\ r.summary = [text |-> "Invalid date range: check-in date must be before check-out date."]

\* an unparseable check-out date was rejected although the table has
\* identifiers the term is part of
C1_Witness ==
    /\ pc = "returned"
    /\ unique_identifiers(data_cache[1]) # <<>>
    /\ request[1].property_name = <<" ">>
    /\ strptime(request[1].check_in_date) # None
    /\ strptime(request[1].check_out_date) = None
    /\ response[1].result[1].found = FALSE
    /\ response[1].resolver_calls = 0

\* C2: for a valid range, available_count is the number of resolver
\* candidates that have an 'available' record on every night of
\* [check_in, check_out).
C2_AvailableCount ==
    ReturnedForValidRange
    => LET rows == data_cache[1]
           c    == response[1].candidates
       IN  response[1].result[1].available_count
             = Cardinality({k \in 1..Len(c) :
                    FullyAvailable(rows, c[k], request[1].check_in_date,
                                   request[1].check_out_date)})

\* two candidates over two nights: one open on both, the other open on the
\* first night only, and only the first is counted
C2_Witness ==
    /\ ReturnedForValidRange
    /\ Len(response[1].candidates) = 2
    /\ Cardinality(StayNights(request[1].check_in_date, request[1].check_out_date)) = 2
    /\ response[1].result[1].available_count = 1
    /\ \E k \in 1..2 :
          LET r1 == RecordAt(data_cache[1], response[1].candidates[k], Sep30)
              r2 == RecordAt(data_cache[1], response[1].candidates[k], Oct01)
          IN  /\ r1 # None /\ r1[1].status = "available"
              /\ (r2 = None \/ r2[1].status # "available")

\* price is floor(total / n) for a positive total and absent otherwise
IsPerNightPrice(price, total, n) ==
    /\ n >= 1
    /\ total <= 0 => price = None
    /\ total > 0
       => /\ price # None
          /\ price[1] * n <= total
          /\ total < (price[1] + 1) * n
    /\ (n = 1 /\ total > 0) => price = Some(total)

\* the entries of props that are available have the per-night price of
\* their total over the nights
AvailableArePriced(props, rows, nights) ==
    \A k \in 1..Len(props) :
        props[k].availability = "available"
        => IsPerNightPrice(props[k].per_night_price,
                           TotalOver(rows, props[k].name, nights), Cardinality(nights))

\* C3: an available candidate's per_night_price is floor(total / nights)
\* when the total of its nights' prices is positive and absent otherwise;
\* for one night it is that night's price.
C3_PerNightPrice ==
    ReturnedForValidRange
    => AvailableArePriced(response[1].result[1].properties, data_cache[1],
                          StayNights(request[1].check_in_date, request[1].check_out_date))

\* an available candidate over two nights whose total does not divide
C3_Witness ==
    /\ ReturnedForValidRange
    /\ Cardinality(StayNights(request[1].check_in_date, request[1].check_out_date)) = 2
    /\ \E k \in 1..Len(response[1].result[1].properties) :
          LET e == response[1].result[1].properties[k]
          IN  /\ e.availability = "available"
              /\ e.per_night_price # None
              /\ TotalOver(data_cache[1], e.name,
                           StayNights(request[1].check_in_date, request[1].check_out_date))
                   # 2 * e.per_night_price[1]

\* the per-night prices of the available entries that have one
PricedAvailable(props) ==
    {props[k].per_night_price[1] :
        k \in {j \in 1..Len(props) : /\ props[j].availability = "available"
                                     /\ props[j].per_night_price # None}}

\* C4: price_range is present exactly when the available candidates that
\* have a price have at least two distinct prices, and then min and max
\* are the smallest and the largest of them.
C4_PriceRange ==
    (pc = "returned" /\ ~response[1].raised)
    => LET r      == response[1].result[1]
           priced == PricedAvailable(r.properties)
       IN  /\ (r.price_range # None) <=> (Cardinality(priced) >= 2)
           /\ r.price_range # None
              => /\ r.price_range[1].min \in priced
                 /\ r.price_range[1].max \in priced
                 /\ \A v \in priced : r.price_range[1].min <= v /\ v <= r.price_range[1].max

\* two available candidates with different prices and a price range
C4_Witness ==
    /\ pc = "returned"
    /\ ~response[1].raised
    /\ response[1].result[1].available_count = 2
    /\ response[1].result[1].price_range # None
    /\ response[1].result[1].price_range[1].min < response[1].result[1].price_range[1].max

\* the members of a sequence
RangeOf(seq) == {seq[k] : k \in 1..Len(seq)}

\* where x first stands in seq
IndexIn(seq, x) ==
    CHOOSE k \in 1..Len(seq) : seq[k] = x /\ \A h \in 1..(k - 1) : seq[h] # x

\* sub lists members of seq, each once, in the order seq has them
InOrderOf(sub, seq) ==
    /\ RangeOf(sub) \subseteq RangeOf(seq)
    /\ \A i \in 1..Len(sub) : \A j \in (i + 1)..Len(sub) :
          IndexIn(seq, sub[i]) < IndexIn(seq, sub[j])

\* the identifier's lower-cased name contains the trimmed, lower-cased term
ContainsTerm(term, id) == str_contains(str_strip(str_lower(term)), str_lower(id))

\* C5: when some identifier contains the trimmed, lower-cased term, the
\* resolver returns exactly the identifiers that contain it, in the
\* identifier set's enumeration order, and only the substring stage runs.
C5_SubstringStage ==
    ReturnedForValidRange
    => LET ids  == unique_identifiers(data_cache[1])
           hits == {id \in RangeOf(ids) : ContainsTerm(request[1].property_name, id)}
       IN  hits # {}
           => /\ RangeOf(response[1].candidates) = hits
              /\ InOrderOf(response[1].candidates, ids)
              /\ response[1].stages = {"substring"}

\* 'MIRA ' finds Mira and not Mirora, which stands before it in the table
C5_Witness ==
    /\ ReturnedForValidRange
    /\ request[1].property_name = <<"M","I","R","A"," ">>
    /\ unique_identifiers(data_cache[1]) = <<Mirora, Mira>>
    /\ response[1].candidates = <<Mira>>
    /\ response[1].stages = {"substring"}

\* the three business rejections of a call that has returned
NoResolverMatch ==
    ReturnedForValidRange /\ response[1].candidates = <<>>

NoneAvailable ==
    /\ ReturnedForValidRange
    /\ response[1].candidates # <<>>
    /\ response[1].result[1].available_count = 0

InvalidRange ==
    /\ pc = "returned"
    /\ ~RangeIsValid(request[1].check_in_date, request[1].check_out_date)

\* C6 as stated: no call raises, and a call without a resolver match, with
\* an invalid range, or with candidates none of which is available returns
\* a result with found = false and a summary.
C6_AllRejectionsNotFound ==
    pc = "returned"
    => /\ ~response[1].raised
       /\ (NoResolverMatch \/ InvalidRange \/ NoneAvailable)
          => /\ response[1].result # None
             /\ response[1].result[1].found = FALSE
             /\ "text" \in DOMAIN response[1].result[1].summary

\* C6: no call raises; a call without a resolver match or with an invalid
\* range returns found = false with its fixed summary, and a call with
\* candidates none of which is available returns found = true with
\* available_count = 0 and the 'none are available' summary.
C6_RejectionsReturned ==
    pc = "returned"
    => /\ ~response[1].raised
       /\ response[1].result # None
       /\ InvalidRange
          => /\ response[1].result[1].found = FALSE
             /\ response[1].result[1].summary.text
                  = "Invalid date range: check-in date must be before check-out date."
       /\ NoResolverMatch
          => /\ response[1].result[1].found = FALSE
             /\ response[1].result[1].summary.text
                  = "No properties found matching '{search_term}'. Try searching for 'Aurelia', 'Siena', or 'Monforte'."
       /\ NoneAvailable
          => /\ response[1].result[1].found = TRUE
             /\ response[1].result[1].available_count = 0
             /\ response[1].result[1].total_found = Len(response[1].candidates)
             /\ response[1].result[1].summary.text
                  = "Found {total_found} {search_term} properties, but none are available from {check_in} to {check_out}."

\* two candidates, neither available for the stay, returned as found
C6_Witness ==
    /\ NoneAvailable
    /\ Len(response[1].candidates) = 2
    /\ response[1].result[1].found = TRUE
    /\ response[1].result[1].summary.total_found = 2

\* no identifier comes out of any of the three stages
NoStageYields(term, ids) ==
    LET search_term_lower == str_strip(str_lower(term))
        search_words      == WordSet(search_term_lower)
    IN  /\ direct_matches(search_term_lower, ids) = <<>>
        /\ word_matches(search_words, ids) = <<>>
        /\ fuzzy_matches(search_term_lower, search_words, ids) = <<>>

\* the fixed no-properties result for the term
IsNoPropertiesResult(r, term) ==
    /\ r.found = FALSE
    /\ r.total_found = 0
    /\ r.available_count = 0
    /\ r.properties = <<>>
    /\ r.summary = [text |-> "No properties found matching '{search_term}'. Try searching for 'Aurelia', 'Siena', or 'Monforte'.",
                    search_term |-> term]

\* the no-properties result is returned exactly when there is nothing to
\* find, and then without an availability lookup
NoPropertiesExactlyWhen(nothing, r, term, lookups) ==
    /\ IsNoPropertiesResult(r, term) <=> nothing
    /\ nothing => lookups = <<>>

\* C7: for a valid range the no-properties result is returned exactly when
\* the identifier set is empty or none of the three stages yields an
\* identifier, and then no availability lookup is made.
C7_NoPropertiesResult ==
    ReturnedForValidRange
    => NoPropertiesExactlyWhen(
          \/ unique_identifiers(data_cache[1]) = <<>>
          \/ NoStageYields(request[1].property_name, unique_identifiers(data_cache[1])),
          response[1].result[1], request[1].property_name, response[1].lookups)

\* a term that passes through all three stages of a table with two
\* identifiers and matches neither
C7_Witness ==
    /\ ReturnedForValidRange
    /\ Len(unique_identifiers(data_cache[1])) = 2
    /\ response[1].stages = {"substring", "word", "fuzzy"}
    /\ response[1].resolver_calls = 1
    /\ IsNoPropertiesResult(response[1].result[1], request[1].property_name)
    /\ response[1].lookups = <<>>

\* C8: a candidate with a missing or not 'available' record on any night
\* of the stay is listed as 'Property data not available.' without a
\* price, whatever its earlier nights cost, and neither price_range nor
\* the summary's price clause takes a price from it.
C8_UnavailableHasNoPrice ==
    ReturnedForValidRange
    => LET rows  == data_cache[1]
           r     == response[1].result[1]
           c     == response[1].candidates
           open  == {id \in RangeOf(c) :
                        FullyAvailable(rows, id, request[1].check_in_date,
                                       request[1].check_out_date)}
           taken == {r.properties[k].per_night_price[1] :
                        k \in {j \in 1..Len(r.properties) :
                                  /\ r.properties[j].name \in open
                                  /\ r.properties[j].per_night_price # None}}
       IN  /\ \A id \in RangeOf(c) \ open :
                /\ \E k \in 1..Len(r.properties) : r.properties[k].name = id
                /\ \A k \in 1..Len(r.properties) :
                      r.properties[k].name = id
                      => /\ r.properties[k].availability = "Property data not available."
                         /\ r.properties[k].per_night_price = None
           /\ r.price_range # None
              => r.price_range[1].min \in taken /\ r.price_range[1].max \in taken
           /\ ("price_text" \in DOMAIN r.summary /\ "price" \in DOMAIN r.summary.price_text)
              => r.summary.price_text.price \in taken

\* over two nights a candidate is open and priced on the first and has no
\* open record on the second, next to a candidate that is open throughout
C8_Witness ==
    /\ ReturnedForValidRange
    /\ request[1].check_in_date = Sep30
    /\ request[1].check_out_date = Oct02
    /\ response[1].result[1].available_count = 1
    /\ \E k \in 1..Len(response[1].candidates) :
          LET r1 == RecordAt(data_cache[1], response[1].candidates[k], Sep30)
              r2 == RecordAt(data_cache[1], response[1].candidates[k], Oct01)
          IN  /\ r1 # None /\ r1[1].status = "available"
              /\ r1[1].listing_price # None /\ r1[1].listing_price[1] > 0
              /\ (r2 = None \/ r2[1].status # "available")
              /\ response[1].result[1].properties[k].availability
                   = "Property data not available."

\* the best weighted score of an identifier in the fuzzy stage
BestWeighted(term, id) ==
    LET q == str_strip(str_lower(term))
        c == str_lower(id)
    IN  MaxScore({Weighted(fuzz_partial_ratio(q, c), 10),
                  Weighted(fuzz_token_sort_ratio(q, c), 12),
                  Weighted(fuzz_token_set_ratio(q, c), 11)})

\* C9: properties lists the resolver's candidates, one entry each, in the
\* resolver's order: the table's enumeration order after the substring and
\* the word stage, descending weighted score after the fuzzy stage.
C9_PropertiesInResolverOrder ==
    (ReturnedForValidRange /\ response[1].candidates # <<>>)
    => LET c     == response[1].candidates
           props == response[1].result[1].properties
           term  == request[1].property_name
       IN  /\ Len(props) = Len(c)
           /\ \A k \in 1..Len(c) : props[k].name = c[k]
           /\ "fuzzy" \notin response[1].stages
              => InOrderOf(c, unique_identifiers(data_cache[1]))
           /\ "fuzzy" \in response[1].stages
              => \A i \in 1..Len(c) : \A j \in (i + 1)..Len(c) :
                    ~ScoreLess(BestWeighted(term, c[i]), BestWeighted(term, c[j]))

\* the fuzzy stage puts Mirora before Mira, against the table's order, and
\* properties keeps that order, whatever the two cost
C9_Witness ==
    /\ ReturnedForValidRange
    /\ unique_identifiers(data_cache[1]) = <<Mira, Mirora>>
    /\ response[1].stages = {"substring", "word", "fuzzy"}
    /\ Len(response[1].result[1].properties) = 2
    /\ response[1].result[1].properties[1].name = Mirora
    /\ response[1].result[1].properties[2].name = Mira
    /\ response[1].result[1].properties[1].per_night_price
         # response[1].result[1].properties[2].per_night_price

\* C10: no step of any search changes the loaded table, and every search
\* that ends among concurrent searches on the shared table, first or
\* repeated, returns what search_properties returns for its arguments
\* when it runs alone.
C10_SearchesShareTheTable ==
    /\ [](\A w \in Workers :
            workers[w].pc = "done"
            => workers[w].out
                 = search_properties(data_cache, workers[w].args[1].property_name,
                                     workers[w].args[1].check_in_date,
                                     workers[w].args[1].check_out_date).result)
    /\ [][data_cache' = data_cache]_vars

\* one search has returned two candidates for a two-night stay while the
\* other is in the middle of its walk over the same table
C10_Witness ==
    \E w \in Workers : \E v \in Workers \ {w} :
        /\ workers[w].pc = "done"
        /\ workers[w].out[1].total_found = 2
        /\ workers[w].out[1].available_count >= 1
        /\ workers[v].pc = "walk"
        /\ workers[v].i = 2
        /\ workers[v].args # workers[w].args

\* the file can be loaded: it can be read, it has a 'date' column once its
\* labels are trimmed, and every date in it is a date
FileLoads(file) ==
    /\ file.readable
    /\ \E i \in 1..Len(file.columns) : str_strip(file.columns[i]) = DateLabel
    /\ \A k \in 1..Len(file.rows) : strptime(file.rows[k].date) # None

\* a date text of the form YYYY-MM-DD
IsIsoText(t) ==
    /\ Len(t) = 10
    /\ t[5] = "-" /\ t[8] = "-"
    /\ \A i \in {1, 2, 3, 4, 6, 7, 9, 10} : t[i] \in DigitSet
    /\ strptime(t) # None

\* the table is there, no label has a blank around it, every date is
\* YYYY-MM-DD, and it holds the rows of the file, one for one
TableIsLoaded ==
    /\ data_cache # None
    /\ \A i \in 1..Len(columns) :
          columns[i] # <<>> => (columns[i][1] # " " /\ columns[i][Len(columns[i])] # " ")
    /\ Len(columns) = Len(csv_file.columns)
    /\ Len(data_cache[1]) = Len(csv_file.rows)
    /\ \A k \in 1..Len(data_cache[1]) :
          /\ IsIsoText(data_cache[1][k].date)
          /\ strptime(data_cache[1][k].date) = strptime(csv_file.rows[k].date)
          /\ data_cache[1][k].Identifier = csv_file.rows[k].Identifier

\* C11: when the file cannot be loaded the construction fails and no search
\* is ever run; a search that runs sees the whole table of the file, its
\* labels trimmed and its dates as YYYY-MM-DD.
C11_LoadedOrNoService ==
    /\ [](pc \in {"idle", "returned"} => (FileLoads(csv_file) /\ TableIsLoaded))
    /\ [](~FileLoads(csv_file) => (pc \notin {"idle", "returned"} /\ response = None))
    /\ [][pc = "failed" => pc' = "failed"]_vars
    /\ [][(pc = "stripped" /\ ~FileLoads(csv_file)) => pc' = "failed"]_vars

\* a search has found the stay of a file that writes ' date' and 2025-10-1
C11_Witness ==
    /\ pc = "returned"
    /\ csv_file.columns = PaddedColumns
    /\ csv_file.rows[1].date = Oct1Short
    /\ data_cache[1][1].date = Oct01
    /\ request[1].check_in_date = Oct01
    /\ response[1].result[1].available_count >= 1

\* the price clause of a summary is the one the result's price_range and
\* the prices of its available entries call for
PriceClauseFollows(clause, r) ==
    LET priced == PricedAvailable(r.properties)
    IN  /\ clause.text \in {"Per-night prices range from {min} to {max}.",
                            "Per-night price is {price}.",
                            "Pricing information available."}
        /\ clause.text = "Per-night prices range from {min} to {max}."
           <=> r.price_range # None
        /\ clause.text = "Per-night prices range from {min} to {max}."
           => (clause.min = r.price_range[1].min /\ clause.max = r.price_range[1].max)
        /\ clause.text = "Per-night price is {price}."
           <=> Cardinality(priced) = 1
        /\ clause.text = "Per-night price is {price}." => priced = {clause.price}
        /\ clause.text = "Pricing information available." <=> priced = {}

\* C12: the summary of a result with candidates follows from its counts:
\* the 'none are available' form when available_count is 0, else the
\* 'currently available' form with the range clause exactly when
\* price_range is present, the single price exactly when the priced
\* available candidates share one price, and 'Pricing information
\* available.' exactly when none of them has a price; the number it names
\* is total_found and the dates are in the long format.
C12_SummaryFollowsCounts ==
    (pc = "returned" /\ ~response[1].raised /\ response[1].candidates # <<>>)
    => LET r == response[1].result[1]
           s == r.summary
       IN  /\ s.total_found = r.total_found
           /\ s.search_term = request[1].property_name
           /\ s.check_in = strftime_long(strptime(request[1].check_in_date)[1])
           /\ s.check_out = strftime_long(strptime(request[1].check_out_date)[1])
           /\ r.available_count = 0
              => s.text = "Found {total_found} {search_term} properties, but none are available from {check_in} to {check_out}."
           /\ r.available_count > 0
              => /\ s.text = "Found {total_found} {search_term} properties for {check_in} to {check_out}. {price_text} {available_count} properties are currently available."
                 /\ s.available_count = r.available_count
                 /\ PriceClauseFollows(s.price_text, r)

\* two available candidates share one price: no price_range, and the
\* summary names that price
C12_Witness ==
    /\ pc = "returned" /\ ~response[1].raised
    /\ response[1].result[1].available_count = 2
    /\ response[1].result[1].price_range = None
    /\ response[1].result[1].summary.price_text.text = "Per-night price is {price}."
    /\ response[1].result[1].summary.price_text.price = 1
    /\ \A k \in 1..2 : response[1].result[1].properties[k].per_night_price = Some(1)

\* the words of a term: lower-cased, split at blanks
SearchWords(term) == WordSet(str_strip(str_lower(term)))

\* the words of an identifier: lower-cased, split at blanks and hyphens
IdentifierWords(id) == WordSet(replace_hyphen(str_lower(id)))

\* some non-generic search word is, or is at least 85 similar to, some
\* non-generic word of the identifier
SpecificWordAgrees(term, id) ==
    \E a \in SearchWords(term) \ generic_words :
        \E b \in IdentifierWords(id) \ generic_words :
            a = b \/ ScoreAtLeast(fuzz_ratio(a, b), 85)

\* the word-set rule of Stage 2
WordSetMatch(term, id) ==
    LET sw == SearchWords(term)
        pw == IdentifierWords(id)
    IN  IF sw \ generic_words # {}
        THEN \/ sw \subseteq pw
             \/ /\ 5 * Cardinality(sw \cap pw) >= 4 * Cardinality(sw)
                /\ SpecificWordAgrees(term, id)
        ELSE sw \subseteq pw

\* a search has returned and no identifier contains its term
ReturnedPastSubstring ==
    /\ ReturnedForValidRange
    /\ \A id \in RangeOf(unique_identifiers(data_cache[1])) :
          ~ContainsTerm(request[1].property_name, id)

\* C13: when no identifier contains the term, the identifiers the word-set
\* rule matches, if there are any, are exactly what the resolver returns,
\* in enumeration order, and the fuzzy stage does not run; if there are
\* none the fuzzy stage runs.
C13_WordSetStage ==
    ReturnedPastSubstring
    => LET ids == unique_identifiers(data_cache[1])
           wm  == {id \in RangeOf(ids) : WordSetMatch(request[1].property_name, id)}
       IN  /\ wm # {}
              => /\ RangeOf(response[1].candidates) = wm
                 /\ InOrderOf(response[1].candidates, ids)
                 /\ response[1].stages = {"substring", "word"}
           /\ wm = {} => response[1].stages = {"substring", "word", "fuzzy"}

\* four of five words are in the identifier and the fifth, 'miroraa', is
\* only similar to its 'mirora': the word stage returns it
C13_Witness ==
    /\ ReturnedPastSubstring
    /\ Cardinality(SearchWords(request[1].property_name)) = 5
    /\ ~(SearchWords(request[1].property_name) \subseteq IdentifierWords(ManorEstateMirora))
    /\ (SearchWords(request[1].property_name) \ generic_words)
          \cap IdentifierWords(ManorEstateMirora) = {}
    /\ response[1].candidates = <<ManorEstateMirora>>
    /\ response[1].stages = {"substring", "word"}

\* the three metrics with ten times their weights
MetricWeights ==
    { <<"partial_ratio", 10>>, <<"token_sort_ratio", 12>>, <<"token_set_ratio", 11>> }

\* the raw score of every identifier under every metric
MetricScores(term, ids) ==
    [m \in {mw[1] : mw \in MetricWeights} |->
        [i \in 1..Len(ids) |->
            score_with(m, str_strip(str_lower(term)), str_lower(ids[i]))]]

\* the i-th identifier is among the 20 best of a metric: fewer than 20
\* score better, or as well and stand before it
Shortlisted(of_metric, i) ==
    Cardinality({j \in DOMAIN of_metric :
                    \/ ScoreLess(of_metric[i], of_metric[j])
                    \/ j < i /\ ~ScoreLess(of_metric[j], of_metric[i])}) < 20

\* the weighted scores the i-th identifier received
WeightedScoresOf(scores, i) ==
    {Weighted(scores[mw[1]][i], mw[2]) :
        mw \in {x \in MetricWeights : Shortlisted(scores[x[1]], i)}}

\* Stage 3 keeps the i-th identifier: its best weighted score is at least
\* 90, and a specific word agrees or, for a generic-only term, it is 95
FuzzyKeeps(term, ids, scores, i) ==
    /\ WeightedScoresOf(scores, i) # {}
    /\ ScoreAtLeast(MaxScore(WeightedScoresOf(scores, i)), 90)
    /\ IF SearchWords(term) \ generic_words # {}
       THEN SpecificWordAgrees(term, ids[i])
       ELSE ScoreAtLeast(MaxScore(WeightedScoresOf(scores, i)), 95)

\* c lists exactly the identifiers Stage 3 keeps, best weighted score first
IsFuzzyStageResult(c, term, ids, scores) ==
    /\ RangeOf(c) = {ids[i] : i \in {k \in 1..Len(ids) : FuzzyKeeps(term, ids, scores, k)}}
    /\ Len(c) = Cardinality(RangeOf(c))
    /\ \A i \in 1..Len(c) : \A j \in (i + 1)..Len(c) :
          ~ScoreLess(MaxScore(WeightedScoresOf(scores, IndexIn(ids, c[i]))),
                     MaxScore(WeightedScoresOf(scores, IndexIn(ids, c[j]))))

\* no identifier contains the term and none is a word-set match
NoEarlierStageYields(term, ids) ==
    \A id \in RangeOf(ids) : ~ContainsTerm(term, id) /\ ~WordSetMatch(term, id)

\* C14: the fuzzy stage runs only when the substring and the word stage
\* yield nothing, and then the resolver returns exactly the identifiers
\* whose best weighted score over the metrics that shortlisted them is at
\* least 90 and that pass the word filter (a specific word agrees; for a
\* generic-only term the score is at least 95), best score first.
C14_FuzzyStage ==
    ReturnedForValidRange
    => LET ids  == unique_identifiers(data_cache[1])
           term == request[1].property_name
       IN  /\ "fuzzy" \in response[1].stages <=> NoEarlierStageYields(term, ids)
           /\ "fuzzy" \in response[1].stages
              => IsFuzzyStageResult(response[1].candidates, term, ids,
                                    MetricScores(term, ids))

\* 'villa' against 21 parts of it: 'la' has its 100 from the partial
\* metric and is returned, 'LA' is the 21st of that metric's ties and is not
C14_Witness ==
    /\ ReturnedForValidRange
    /\ unique_identifiers(data_cache[1]) = VillaPieces
    /\ request[1].property_name = <<"v","i","l","l","a">>
    /\ response[1].stages = {"substring", "word", "fuzzy"}
    /\ <<"l","a">> \in RangeOf(response[1].candidates)
    /\ <<"L","A">> \notin RangeOf(response[1].candidates)
    /\ Len(response[1].candidates) = 20

\* no night of the stay has a price above 0 for the identifier
NoNightIsPriced(rows, id, nights) ==
    \A t \in nights :
        LET r == RecordAt(rows, id, t)
        IN  r = None \/ r[1].listing_price = None \/ r[1].listing_price[1] = 0

\* the entry of a candidate that is open on every night: it is 'available'
\* whatever its prices are, and without a price when no night has one
OpenEntryIsAvailable(entry, rows, check_in_date, check_out_date) ==
    FullyAvailable(rows, entry.name, check_in_date, check_out_date)
    => /\ entry.availability = "available"
       /\ NoNightIsPriced(rows, entry.name, StayNights(check_in_date, check_out_date))
          => entry.per_night_price = None

\* C15: a missing price counts 0 and never makes a candidate unavailable:
\* a candidate whose every night is 'available' is listed as available and
\* counted, and when none of its nights has a price it has no
\* per_night_price and stays out of price_range and of the summary's
\* price.
C15_MissingPriceKeepsAvailable ==
    ReturnedForValidRange
    => LET r     == response[1].result[1]
           open  == {k \in 1..Len(r.properties) :
                        FullyAvailable(data_cache[1], r.properties[k].name,
                                       request[1].check_in_date, request[1].check_out_date)}
       IN  /\ \A k \in 1..Len(r.properties) :
                 OpenEntryIsAvailable(r.properties[k], data_cache[1],
                                      request[1].check_in_date, request[1].check_out_date)
           /\ r.available_count >= Cardinality(open)
           /\ (open # {} /\ \A k \in open : r.properties[k].per_night_price = None)
              => /\ r.price_range = None
                 /\ r.summary.price_text = [text |-> "Pricing information available."]
           /\ r.price_range # None
              => {r.price_range[1].min, r.price_range[1].max}
                    \subseteq PricedAvailable(r.properties)

\* two nights, two candidates open on both: one has no price on either
\* night, the other costs 1 a night; both are counted and the summary
\* names the one price
C15_Witness ==
    /\ ReturnedForValidRange
    /\ Cardinality(StayNights(request[1].check_in_date, request[1].check_out_date)) = 2
    /\ response[1].result[1].available_count = 2
    /\ \E k \in 1..2 :
          /\ \A t \in {Sep30, Oct01} :
                RecordAt(data_cache[1], response[1].candidates[k], t)[1].listing_price = None
          /\ response[1].result[1].properties[k].availability = "available"
          /\ response[1].result[1].properties[k].per_night_price = None
          /\ response[1].result[1].properties[3 - k].per_night_price = Some(1)
    /\ response[1].result[1].price_range = None
    /\ response[1].result[1].summary.price_text.text = "Per-night price is {price}."

\* the rows that are the first loaded for their identifier and date
FirstSeenOnly(rows) ==
    LET kept == {k \in 1..Len(rows) :
                    \A h \in 1..(k - 1) :
                        ~(rows[h].Identifier = rows[k].Identifier
                          /\ rows[h].date = rows[k].date)}
        nth(n) == CHOOSE k \in kept : Cardinality({h \in kept : h < k}) = n - 1
    IN  [n \in 1..Cardinality(kept) |-> rows[nth(n)]] \o <<>>

\* C16: with more than one record for an identifier and date, the lookups
\* use the first loaded for status and price: the search returns what it
\* returns on the table that holds only the first-seen record of each pair.
C16_FirstRecordWins ==
    (pc = "returned" /\ FirstSeenOnly(data_cache[1]) # data_cache[1])
    => response[1] = search_properties(Some(FirstSeenOnly(data_cache[1])),
                                       request[1].property_name,
                                       request[1].check_in_date,
                                       request[1].check_out_date)

\* Mira Villa has two records for the first night, open at a price and then
\* booked, and the search found it available at that price
C16_Witness ==
    /\ ReturnedForValidRange
    /\ Len(day_data_of(data_cache[1], MiraVilla, Sep30)) = 2
    /\ day_data_of(data_cache[1], MiraVilla, Sep30)[1].status = "available"
    /\ day_data_of(data_cache[1], MiraVilla, Sep30)[1].listing_price = Some(1)
    /\ day_data_of(data_cache[1], MiraVilla, Sep30)[2].status = "booked"
    /\ request[1].check_in_date = Sep30
    /\ \E k \in 1..Len(response[1].result[1].properties) :
          /\ response[1].result[1].properties[k].name = MiraVilla
          /\ response[1].result[1].properties[k].availability = "available"
          /\ response[1].result[1].properties[k].per_night_price = Some(1)

\* C18: for every non-empty input parse_date raises ValueError or returns
\* a date text of the form YYYY-MM-DD; an input that is a valid ISO date
\* comes back unchanged, so parse_date of what it returned returns the
\* same; an empty or blank input raises ValueError.
C18_ParseDateGivesIsoOrValueError ==
    (pc = "returned" /\ "date_input" \in DOMAIN request[1])
    => LET given == request[1].date_input
           out   == response[1]
       IN  /\ out.raised => out.error = "ValueError"
           /\ ~out.raised => IsIsoText(out.value)
           /\ IsIsoText(given) => out = Returned(given)
           /\ "again" \in DOMAIN request[1] => out = Returned(given)
           /\ str_strip(given) = <<>> => out.raised

\* a body in one of the two formats the handler knows
IsRecognised(request_data) ==
    "toolCall" \in DOMAIN request_data \/ "toolCallId" \in DOMAIN request_data

\* the envelope {results: [{toolCallId, result}]} with this id and a string
IsEnvelopeFor(value, tool_call_id) ==
    /\ "results" \in DOMAIN value
    /\ Len(value.results) = 1
    /\ value.results[1].toolCallId = tool_call_id
    /\ is_str(value.results[1].result)

\* C17: every webhook request in a recognised format is answered with an
\* envelope {results: [{toolCallId, result}]} that carries the tool call
\* id of the request and a string result; the handler never ends without
\* such a response.
C17_RecognisedRequestGetsEnvelope ==
    (/\ pc = "returned"
     /\ "request_data" \in DOMAIN request[1]
     /\ IsRecognised(request[1].request_data))
    => /\ ~response[1].raised
       /\ IsEnvelopeFor(response[1].value, extracted(request[1].request_data).tool_call_id)

\* the entries of a result that are available
AvailableEntries(r) ==
    {k \in 1..Len(r.properties) : r.properties[k].availability = "available"}

\* p is the per-night price of an available entry of the result
IsListedPrice(r, p) ==
    \E k \in AvailableEntries(r) : r.properties[k].per_night_price = Some(p)

\* what holds of a result r returned for the call args with the resolver
\* candidates given
ResultInvariants(r, args, candidates) ==
    /\ r.search_term = args.property_name
    /\ r.check_in_date = args.check_in_date
    /\ r.check_out_date = args.check_out_date
    /\ Len(r.properties) = r.total_found
    /\ r.total_found = Len(candidates)
    /\ r.available_count = Cardinality(AvailableEntries(r))
    /\ r.available_count <= r.total_found
    /\ \A k \in 1..Len(r.properties) :
          r.properties[k].per_night_price # None => k \in AvailableEntries(r)
    /\ ~r.found => (r.total_found = 0 /\ r.properties = <<>> /\ r.price_range = None)
    /\ r.price_range # None =>
          /\ r.price_range[1].min < r.price_range[1].max
          /\ IsListedPrice(r, r.price_range[1].min)
          /\ IsListedPrice(r, r.price_range[1].max)

\* C19: every result search_properties returns echoes the three inputs;
\* len(properties) = total_found = number of resolver candidates;
\* available_count counts the 'available' entries and is at most
\* total_found; an entry with a per_night_price is 'available'; found =
\* false goes with total_found = 0, no properties and no price_range; a
\* price_range has min < max, both per-night prices of listed available
\* entries.
C19_ResultInvariants ==
    (pc = "returned" /\ ~response[1].raised)
    => ResultInvariants(response[1].result[1], request[1], response[1].candidates)

\* a result with two candidates, both available, and a price range
C19_Witness ==
    /\ pc = "returned"
    /\ ~response[1].raised
    /\ response[1].result[1].found
    /\ Len(response[1].candidates) = 2
    /\ response[1].result[1].available_count = 2
    /\ response[1].result[1].price_range # None

\* the words of a term as the resolver splits it
TermWords(term) == WordSet(str_strip(str_lower(term)))

\* C20: for an empty or blank term and a non-empty identifier set the
\* substring stage matches every identifier, so the resolver returns the
\* whole identifier set in enumeration order; the word-set stage is never
\* run with zero search words, and the resolver never fails with a
\* division by zero, whatever the term and the identifier set.
C20_EmptyTermMatchesEveryIdentifier ==
    pc = "returned"
    => /\ ~response[1].raised
       /\ "word" \in response[1].stages => TermWords(request[1].property_name) # {}
       /\ (/\ str_strip(request[1].property_name) = <<>>
           /\ unique_identifiers(data_cache[1]) # <<>>)
          => /\ response[1].candidates = unique_identifiers(data_cache[1])
             /\ response[1].stages = {"substring"}

\* a blank term was searched in a table of several identifiers
C20_Witness ==
    /\ pc = "returned"
    /\ request[1].property_name # <<>>
    /\ str_strip(request[1].property_name) = <<>>
    /\ Len(response[1].candidates) >= 2
    /\ response[1].candidates = unique_identifiers(data_cache[1])

\* the availability computation for the candidates fails: a candidate has
\* a record on the check-in date and the frame has no 'status' column, or
\* that record is 'available' and the frame has no 'listing price' column
AvailabilityFails(labels, rows, candidates, check_in_date) ==
    \E k \in 1..Len(candidates) :
        \E r \in 1..Len(rows) :
            /\ rows[r].Identifier = candidates[k]
            /\ rows[r].date = check_in_date
            /\ \A h \in 1..(r - 1) :
                  ~(rows[h].Identifier = candidates[k] /\ rows[h].date = check_in_date)
            /\ \/ ~has_column(labels, StatusLabel)
               \/ rows[r].status = "available" /\ ~has_column(labels, ListingPriceLabel)

\* every candidate is listed as not available and without a price
AllListedUnavailable(r, candidates) ==
    /\ Len(r.properties) = Len(candidates)
    /\ \A k \in 1..Len(candidates) :
          r.properties[k] = [name |-> candidates[k],
                             availability |-> "Property data not available.",
                             per_night_price |-> None]

\* C21: when the availability computation for the candidates fails inside
\* _get_property_availability_range, nothing is raised: the search returns
\* found = true, total_found = the number of resolver candidates,
\* available_count = 0, no price_range, and every candidate listed as
\* 'Property data not available.' without a price.
C21_AvailabilityFailureSwallowed ==
    (/\ pc = "returned"
     /\ response[1].candidates # <<>>
     /\ AvailabilityFails(columns, data_cache[1], response[1].candidates,
                          request[1].check_in_date))
    => /\ ~response[1].raised
       /\ response[1].result[1].found
       /\ response[1].result[1].total_found = Len(response[1].candidates)
       /\ response[1].result[1].available_count = 0
       /\ response[1].result[1].price_range = None
       /\ AllListedUnavailable(response[1].result[1], response[1].candidates)

\* two candidates on a frame without 'listing price': the first has no
\* record on the check-in date, the second is open on every night asked for
C21_Witness ==
    /\ pc = "returned"
    /\ ~has_column(columns, ListingPriceLabel)
    /\ has_column(columns, StatusLabel)
    /\ Len(response[1].candidates) = 2
    /\ day_data_of(data_cache[1], response[1].candidates[1], request[1].check_in_date) = <<>>
    /\ get_property_availability_range(data_cache[1], response[1].candidates,
           request[1].check_in_date, request[1].check_out_date)[2].is_available
    /\ AvailabilityFails(columns, data_cache[1], response[1].candidates,
                         request[1].check_in_date)
    /\ ~response[1].raised

====
